---- MODULE Spec2Model ----
(***************************************************************************)
(* A model of tcmsp_related_targets_export_v2.py: the extraction chain     *)
(* (extract_related_targets), the drill-down loop (drill_down_to_detail)   *)
(* with its caller run_once, the view classifier (is_search_list_page) and *)
(* the paginated grid walk (extract_kendo_grid_all_pages), the functions   *)
(* normalize_headers, normalize_related_targets_df and retry, and run_once *)
(* from open_entry to the closing of the browser.                          *)
(*                                                                         *)
(* The browser page is the environment.  Every read of it is an input      *)
(* drawn from a bounded set; a page call that can raise has "raise" among  *)
(* its outcomes.  Each part of the program has its own specification; the  *)
(* variables of the other parts rest at their idle values.                 *)
(***************************************************************************)
EXTENDS Integers, Sequences, FiniteSets, TLC

VARIABLES
    \* ---- extract_related_targets (lines 945-979)
    cpc,            \* position in the chain
    ensureIn,       \* what the page does to ensure_related_targets_section
    tierIn,         \* per tier, what the page offers to that tier
    attempted,      \* tiers started so far, in order
    raisedAt,       \* where the exception that left the chain was raised
    source,         \* the table as the yielding tier produced it
    result,         \* the returned DataFrame
    label,          \* the returned provenance label
    \* ---- run_once (1141-1171) and drill_down_to_detail (349-394)
    rpc,            \* position in run_once
    dpc,            \* position in drill_down_to_detail
    page,           \* the live page: url and what its DOM shows
    depth,          \* the loop variable of "for depth in range(4)"
    last_url,       \* local last_url
    stagnant_rounds,\* local stagnant_rounds
    prev_url,       \* the URL at the end of the round before last_url's
    rounds,         \* rounds started
    navs,           \* navigations done in the current round
    nav_total,      \* navigations done since drill_down_to_detail was called
    is_list,        \* result of the latest is_search_list_page call
    exit,           \* how drill_down_to_detail was left
    chainArg,       \* the page handed to extract_related_targets
    failCause,      \* the step whose exception ended run_once
    \* ---- is_search_list_page (242-262) as a function of the page
    kpc,            \* position of the classifier run
    kpage,          \* the page it classifies
    kresult,        \* its return value
    \* ---- extract_kendo_grid_all_pages (698-742)
    wpc,            \* position in the walk
    grid,           \* the widget: its page count and its header cells' texts
    gridPage,       \* the widget's current page
    page_num,       \* the loop variable
    current_page,   \* local current_page
    total_pages,    \* local total_pages
    headers,        \* local headers
    rows,           \* local rows
    seen,           \* local seen
    reads,          \* every row read so far, in reading order
    table,          \* the returned DataFrame
    state_reads,    \* calls of get_kendo_state made by the walk
    commands,       \* calls of set_kendo_page made by the walk
    \* ---- normalize_headers (397-408) as a function of its argument
    hpc,            \* position of the call
    hin,            \* the argument headers
    hout,           \* the returned list
    \* ---- normalize_related_targets_df (869-885) as a function of its argument
    npc,            \* position of the call
    nin,            \* the argument DataFrame
    nout,           \* the returned DataFrame
    nagain,         \* what the call of line 1144 returns for it
    \* ---- retry (102-111)
    tpc,            \* position in retry
    attempts,       \* the argument attempts
    ti,             \* the loop variable i
    last_exc,       \* local last_exc
    tout,           \* how retry ended: the value returned or the exception raised
    events,         \* the invocations of action and the sleeps, in order
    \* ---- run_once (1062-1188), from open_entry to the closing of the browser
    opc,            \* position in run_once
    entries,        \* the number of entry URLs load_entry_urls returns
    pass,           \* retry's loop variable i
    eidx,           \* open_entry's loop variable idx
    olog,           \* the calls made so far, in order
    failed,         \* the step whose exception entered the except clause
    pending,        \* the exception on its way out of run_once
    saved,          \* the table handed to save_success_xlsx
    oend,           \* how run_once ended
    \* ---- ensure_related_targets_section (565-609)
    epc,            \* position in the function
    esec,           \* the section worked on: 1 Related Targets, 2 Targets Info
    eattempt,       \* the loop variable attempt
    elog,           \* the attempts, visibility checks and overrides, in order
    \* ---- extract_grid2_data_from_html (795-844) from array_start on
    bpc,            \* position of the call
    bdoc,           \* the page source: the array's values and what follows it
    bsel,           \* json_text, the text the scan selected
    bout,           \* the records returned; <<>> for None
    \* ---- response_log of run_once (1064-1095) and its readers
    lpc,            \* position of the main flow of run_once
    rlog,           \* response_log
    lresp,          \* the responses the browser has delivered, in order
    lseen,          \* the entries extract_from_xhr iterated over
    lreads          \* calls of extract_from_xhr

chainVars == <<cpc, ensureIn, tierIn, attempted, raisedAt, source, result, label>>
drillVars == <<rpc, dpc, page, depth, last_url, stagnant_rounds, prev_url, rounds,
               navs, nav_total, is_list, exit, chainArg, failCause>>
classVars == <<kpc, kpage, kresult>>
walkVars  == <<wpc, grid, gridPage, page_num, current_page, total_pages, headers,
               rows, seen, reads, table, state_reads, commands>>
hdrVars   == <<hpc, hin, hout>>
\* the parts that rest while the chain, the drill-down, the classifier or the
\* walk runs
normVars  == <<npc, nin, nout, nagain>>
retryVars == <<tpc, attempts, ti, last_exc, tout, events>>
onceVars  == <<opc, entries, pass, eidx, olog, failed, pending, saved, oend>>
ensVars   == <<epc, esec, eattempt, elog>>
scanVars  == <<bpc, bdoc, bsel, bout>>
logVars   == <<lpc, rlog, lresp, lseen, lreads>>
restVars  == <<hdrVars, normVars, retryVars, onceVars, ensVars, scanVars, logVars>>
vars == <<chainVars, drillVars, classVars, walkVars, restVars>>

(***************************************************************************)
(* DataFrames.  A cell is <<tag, text>>: a string, an integer, a float or  *)
(* a missing value.                                                        *)
(***************************************************************************)
NA == <<"na", "">>
NoneDF == [kind |-> "none", cols |-> <<>>, rows |-> <<>>]
DataFrame(cols, rs) == [kind |-> "df", cols |-> cols, rows |-> rs]

(***************************************************************************)
(* The idle values of each part, held while another part runs.             *)
(***************************************************************************)
ChainIdle ==
    /\ cpc = "off" /\ ensureIn = "off" /\ tierIn = <<>> /\ attempted = <<>>
    /\ raisedAt = -1 /\ source = NoneDF /\ result = NoneDF /\ label = ""

\* no page: the value of a page variable that is not in use
NoPage == [url |-> 0, headers |-> <<>>, hdrRaises |-> FALSE, html |-> {},
           contentRaises |-> FALSE, rowReady |-> FALSE, cells |-> <<>>]

DrillIdle ==
    /\ rpc = "off" /\ dpc = "off" /\ page = NoPage /\ depth = 0 /\ last_url = 0
    /\ stagnant_rounds = 0 /\ prev_url = 0 /\ rounds = 0 /\ navs = 0 /\ nav_total = 0
    /\ is_list = FALSE /\ exit = "" /\ chainArg = NoPage /\ failCause = ""

HdrIdle == hpc = "off" /\ hin = <<>> /\ hout = <<>>
NormIdle == npc = "off" /\ nin = NoneDF /\ nout = NoneDF /\ nagain = NoneDF
RetryIdle ==
    /\ tpc = "off" /\ attempts = 0 /\ ti = 0 /\ last_exc = "" /\ tout = <<"", "">>
    /\ events = <<>>
OnceIdle ==
    /\ opc = "off" /\ entries = 0 /\ pass = 0 /\ eidx = 0 /\ olog = <<>>
    /\ failed = "" /\ pending = "" /\ saved = NoneDF /\ oend = ""
EnsIdle == epc = "off" /\ esec = 0 /\ eattempt = 0 /\ elog = <<>>
NoDoc == [kind |-> "off", vals |-> <<>>, tail |-> <<>>]
ScanIdle == bpc = "off" /\ bdoc = NoDoc /\ bsel = <<>> /\ bout = <<>>
LogIdle == lpc = "off" /\ rlog = <<>> /\ lresp = <<>> /\ lseen = <<>> /\ lreads = 0
RestIdle == HdrIdle /\ NormIdle /\ RetryIdle /\ OnceIdle /\ EnsIdle /\ ScanIdle /\ LogIdle
ClassIdle == kpc = "off" /\ kpage = NoPage /\ kresult = FALSE

WalkIdle ==
    /\ wpc = "off" /\ grid = "off" /\ gridPage = 0 /\ page_num = 0
    /\ current_page = 0 /\ total_pages = 0 /\ headers = <<>> /\ rows = <<>>
    /\ seen = {} /\ reads = <<>> /\ table = NoneDF
    /\ state_reads = 0 /\ commands = 0

\* df.empty: an axis of length 0
Empty(df) == Len(df.cols) = 0 \/ Len(df.rows) = 0

RELATED_COLUMNS == <<"molecule_ID", "MOL_ID", "molecule_name", "target_name",
                     "target_ID", "drugbank_ID", "validated", "SVM_score", "RF_score">>

IntStrings == {"1", "2"}
FloatStrings == {"0.8"}

\* int(float): the text of a float cut to its integer part
Trunc(s) == IF s = "0.8" THEN "0" ELSE s

\* pd.to_numeric(errors="coerce") on one cell
to_numeric(c) ==
    IF c[1] \in {"int", "float"} THEN c
    ELSE IF c[1] = "str" /\ c[2] \in IntStrings THEN <<"int", c[2]>>
    ELSE IF c[1] = "str" /\ c[2] \in FloatStrings THEN <<"float", c[2]>>
    ELSE NA

ColIndex(cols, name) == CHOOSE i \in 1..Len(cols) : cols[i] = name
HasCol(cols, name) == \E i \in 1..Len(cols) : cols[i] = name

\* a column of a numeric dtype holds one dtype: int64 only if every cell is an int
AsColumn(cells) ==
    IF \A i \in 1..Len(cells) : cells[i][1] = "int" THEN cells
    ELSE [i \in 1..Len(cells) |->
            IF cells[i][1] = "int" THEN <<"float", cells[i][2]>> ELSE cells[i]]

\* lines 872-876: to_numeric, then astype(int) if nothing is missing
IdColumn(cells) ==
    LET num == [i \in 1..Len(cells) |-> to_numeric(cells[i])]
    IN IF \A i \in 1..Len(num) : num[i] # NA
       THEN [i \in 1..Len(num) |-> <<"int", Trunc(num[i][2])>>]
       ELSE AsColumn(num)

\* lines 877-879
ScoreColumn(cells) == AsColumn([i \in 1..Len(cells) |-> to_numeric(cells[i])])

\* lines 872-879: one named column, if present, replaced by its converted cells
MapColumn(df, name, dtype) ==
    IF ~HasCol(df.cols, name) THEN df
    ELSE LET k == ColIndex(df.cols, name)
             cells == [r \in 1..Len(df.rows) |-> df.rows[r][k]]
             col == IF dtype = "id" THEN IdColumn(cells) ELSE ScoreColumn(cells)
         IN [df EXCEPT !.rows =
                [r \in 1..Len(df.rows) |-> [df.rows[r] EXCEPT ![k] = col[r]]]]

\* the places of the columns labelled name, left to right
Positions(cols, name) ==
    SelectSeq([i \in 1..Len(cols) |-> i], LAMBDA i : cols[i] = name)

\* df[labels]: for each label in turn, every column that carries it
RECURSIVE Take(_, _)
Take(cols, labels) ==
    IF labels = <<>> THEN <<>>
    ELSE Positions(cols, Head(labels)) \o Take(cols, Tail(labels))

\* lines 882-884: canonical columns first, in RELATED_COLUMNS order, extras after
Reorder(df) ==
    LET cols == SelectSeq(RELATED_COLUMNS, LAMBDA c : HasCol(df.cols, c))
        extras == SelectSeq(df.cols, LAMBDA c : ~HasCol(cols, c))
        order == Take(df.cols, cols \o extras)
    IN [df EXCEPT !.cols = [j \in 1..Len(order) |-> df.cols[order[j]]],
                  !.rows = [r \in 1..Len(df.rows) |->
                              [j \in 1..Len(order) |-> df.rows[r][order[j]]]]]

normalize_related_targets_df(df) ==
    LET d0 == [df EXCEPT !.rows =
                 [r \in 1..Len(df.rows) |->
                    [j \in 1..Len(df.rows[r]) |->
                        IF df.rows[r][j] = <<"str", "">> THEN NA ELSE df.rows[r][j]]]]
        d1 == MapColumn(d0, "molecule_ID", "id")
        d2 == MapColumn(d1, "target_ID", "id")
        d3 == MapColumn(d2, "SVM_score", "score")
        d4 == MapColumn(d3, "RF_score", "score")
    IN Reorder(d4)

(***************************************************************************)
(* extract_related_targets and the five tiers it calls.                    *)
(***************************************************************************)
TabA == DataFrame(<<"target_name", "molecule_ID">>, << <<(<<"str", "ABC">>), (<<"str", "1">>)>> >>)
TabB == DataFrame(<<"SVM_score", "molecule_ID", "note">>,
                  << <<(<<"str", "0.8">>), (<<"str", "2">>), (<<"str", "">>)>> >>)
\* pd.DataFrame([{}]): one row, no column
ZeroCols == DataFrame(<<>>, << <<>> >>)
\* pd.DataFrame()
EmptyDF == DataFrame(<<>>, <<>>)

In(kind, df) == [kind |-> kind, df |-> df]

\* what ensure_related_targets_section meets on the page: a page call raising,
\* the grid2 rows attached within the timeout, #tabstrip-2 visible at the end
EnsureInputs == [callRaises : BOOLEAN, grid2Attached : BOOLEAN, tabVisible : BOOLEAN]

\* tier 1: what page.evaluate returns for grid.dataSource.data()
Tier1Inputs == {In("raise", NoneDF), In("null", NoneDF), In("scalar", NoneDF),
                In("list", EmptyDF), In("list", ZeroCols), In("list", TabA)}
\* tier 2: page.content(), and what the grid2 snippet of the markup holds
Tier2Inputs == {In("raise", NoneDF), In("nomarker", NoneDF), In("badjson", NoneDF),
                In("list", EmptyDF), In("list", TabB)}
\* tier 3: extract_kendo_grid_all_pages raises or returns a DataFrame
Tier3Inputs == {In("raise", NoneDF), In("df", EmptyDF), In("df", TabA)}
\* tier 4: a frame or parser call raises, no table is found, or a table is
Tier4Inputs == {In("raise", NoneDF), In("none", NoneDF), In("df", TabB)}
\* tier 5: the captured bodies
Tier5Inputs == {In("raise", NoneDF), In("none", NoneDF), In("df", TabA)}

\* lines 565-609: "ok", or "raise" out of a page call, the wait of line 606
\* or the RuntimeError of line 609
ensure_related_targets_section(in) ==
    IF in.callRaises THEN "raise"
    ELSE IF ~in.grid2Attached THEN "raise"
    ELSE IF ~in.tabVisible THEN "raise"
    ELSE "ok"

\* the activation's exception let through
EnsureGuard_Propagates(outcome) == IF outcome = "ok" THEN "tier1" ELSE "raised"

\* lines 947-950: try: ensure_related_targets_section(...) except Exception: print
EnsureGuard(outcome) == "tier1"

\* lines 847-866
extract_grid2_data_from_kendo(in) ==
    IF in.kind = "raise" THEN NoneDF
    ELSE IF in.kind # "list" THEN NoneDF
    ELSE IF in.df = EmptyDF THEN NoneDF
    ELSE in.df

\* lines 795-844
extract_grid2_data_from_html(in) ==
    IF in.kind # "list" THEN NoneDF
    ELSE IF in.df = EmptyDF THEN NoneDF
    ELSE in.df

\* "df is not None", the emptiness test forgotten
Yields_NoEmptyTest(df) == df.kind # "none"

\* "df is not None and not df.empty" (lines 954, 960, 966, 972, 976)
Yields(df) == df.kind # "none" /\ ~Empty(df)

Returned(df, lbl) ==
    /\ cpc' = "returned"
    /\ source' = df
    /\ result' = IF lbl = "DOM" THEN df ELSE normalize_related_targets_df(df)
    /\ label' = lbl
    /\ raisedAt' = raisedAt

Raised(at) ==
    /\ cpc' = "raised"
    /\ raisedAt' = at
    /\ UNCHANGED <<source, result, label>>

Fallthrough(next) ==
    /\ cpc' = next
    /\ UNCHANGED <<raisedAt, source, result, label>>

\* lines 947-950
EnsureSection ==
    /\ cpc = "ensure"
    /\ LET next == EnsureGuard(ensure_related_targets_section(ensureIn))
       IN IF next = "tier1" THEN Fallthrough("tier1") ELSE Raised(0)
    /\ UNCHANGED <<ensureIn, tierIn, attempted>>
    /\ UNCHANGED <<drillVars, classVars, walkVars, restVars>>

\* lines 953-955
Tier1Kendo ==
    /\ cpc = "tier1"
    /\ attempted' = Append(attempted, 1)
    /\ LET df == extract_grid2_data_from_kendo(tierIn[1])
       IN IF Yields(df) THEN Returned(df, "Kendo-DataSource") ELSE Fallthrough("tier2")
    /\ UNCHANGED <<ensureIn, tierIn>>
    /\ UNCHANGED <<drillVars, classVars, walkVars, restVars>>

\* lines 958-961: page.content() is called outside any try
Tier2Html ==
    /\ cpc = "tier2"
    /\ attempted' = Append(attempted, 2)
    /\ IF tierIn[2].kind = "raise" THEN Raised(2)
       ELSE LET df == extract_grid2_data_from_html(tierIn[2])
            IN IF Yields(df) THEN Returned(df, "HTML-embedded") ELSE Fallthrough("tier3")
    /\ UNCHANGED <<ensureIn, tierIn>>
    /\ UNCHANGED <<drillVars, classVars, walkVars, restVars>>

\* lines 964-969: the walk inside try ... except Exception: pass
Tier3DomKendo ==
    /\ cpc = "tier3"
    /\ attempted' = Append(attempted, 3)
    /\ IF tierIn[3].kind = "raise" THEN Fallthrough("tier4")
       ELSE IF ~Empty(tierIn[3].df) THEN Returned(tierIn[3].df, "DOM-Kendo")
       ELSE Fallthrough("tier4")
    /\ UNCHANGED <<ensureIn, tierIn>>
    /\ UNCHANGED <<drillVars, classVars, walkVars, restVars>>

\* lines 971-973, with extract_from_frames (463-475) called outside any try
Tier4Frames ==
    /\ cpc = "tier4"
    /\ attempted' = Append(attempted, 4)
    /\ IF tierIn[4].kind = "raise" THEN Raised(4)
       ELSE IF Yields(tierIn[4].df) THEN Returned(tierIn[4].df, "DOM")
       ELSE Fallthrough("tier5")
    /\ UNCHANGED <<ensureIn, tierIn>>
    /\ UNCHANGED <<drillVars, classVars, walkVars, restVars>>

\* lines 975-979; 6 stands for the RuntimeError of line 979
Tier5Xhr ==
    /\ cpc = "tier5"
    /\ attempted' = Append(attempted, 5)
    /\ IF tierIn[5].kind = "raise" THEN Raised(5)
       ELSE IF Yields(tierIn[5].df) THEN Returned(tierIn[5].df, "XHR")
       ELSE Raised(6)
    /\ UNCHANGED <<ensureIn, tierIn>>
    /\ UNCHANGED <<drillVars, classVars, walkVars, restVars>>


ChainInit ==
    /\ cpc = "ensure"
    /\ ensureIn \in EnsureInputs
    /\ tierIn \in {<<a, b, c, d, e>> : a \in Tier1Inputs, b \in Tier2Inputs,
                       c \in Tier3Inputs, d \in Tier4Inputs, e \in Tier5Inputs}
    /\ attempted = <<>> /\ raisedAt = -1
    /\ source = NoneDF /\ result = NoneDF /\ label = ""
    /\ DrillIdle /\ ClassIdle /\ WalkIdle /\ RestIdle

ChainNext ==
    \/ EnsureSection
    \/ Tier1Kendo
    \/ Tier2Html
    \/ Tier3DomKendo
    \/ Tier4Frames
    \/ Tier5Xhr

ChainSpec == ChainInit /\ [][ChainNext]_vars

(***************************************************************************)
(* Claims about the chain, under ChainSpec.                                *)
(***************************************************************************)
\* what tier k offers on this page: the table it would produce, none if it
\* produces nothing or fails
TierTable(k) ==
    IF k = 1 THEN extract_grid2_data_from_kendo(tierIn[1])
    ELSE IF k = 2 THEN extract_grid2_data_from_html(tierIn[2])
    ELSE tierIn[k].df

NonEmptyTable(df) == df.kind = "df" /\ Len(df.cols) > 0 /\ Len(df.rows) > 0

Provenance == <<"Kendo-DataSource", "HTML-embedded", "DOM-Kendo", "DOM", "XHR">>

ChainEnded == cpc \in {"returned", "raised"}

\* C1: the tiers are attempted in the fixed order 1..5; no tier is attempted
\* after one that yielded a non-empty table; what is returned is the table of
\* the first tier that yields a non-empty one, with that tier's label; and
\* when tier 1 yields, the result is tier 1's whatever tier 2 holds.
C1_FixedPriority ==
    /\ \A i \in 1..Len(attempted) : attempted[i] = i
    /\ \A i \in 1..(Len(attempted) - 1) : ~NonEmptyTable(TierTable(i))
    /\ cpc = "returned" =>
          LET k == Len(attempted)
          IN /\ k \in 1..5
             /\ NonEmptyTable(TierTable(k))
             /\ source = TierTable(k)
             /\ label = Provenance[k]
             /\ result = IF k = 4 THEN source ELSE normalize_related_targets_df(source)
    /\ (ChainEnded /\ NonEmptyTable(TierTable(1))) =>
          /\ cpc = "returned" /\ label = "Kendo-DataSource"
          /\ source = TierTable(1) /\ attempted = <<1>>

C1_Witness ==
    /\ cpc = "returned" /\ label = "Kendo-DataSource"
    /\ NonEmptyTable(TierTable(2)) /\ TierTable(2) # TierTable(1)

\* C2 (as claimed): the chain raises exactly when none of the five tiers has
\* a non-empty table to give, and what it returns is non-empty and labelled
\* with one of the five labels.
C2_RaisesIffAllTiersEmpty ==
    /\ cpc = "raised" => \A k \in 1..5 : ~NonEmptyTable(TierTable(k))
    /\ (ChainEnded /\ \A k \in 1..5 : ~NonEmptyTable(TierTable(k))) => cpc = "raised"
    /\ cpc = "returned" =>
          NonEmptyTable(result) /\ \E k \in 1..5 : label = Provenance[k]

\* C3 (as claimed): an exception inside a tier never aborts the chain; the
\* chain raises only after all five tiers were attempted.
C3_RaisesOnlyAfterAllTiers ==
    cpc = "raised" => attempted = <<1, 2, 3, 4, 5>>

\* C4: whatever happens while the section is activated, tier 1 is attempted
\* next, and no exception that leaves the chain comes from the activation.
C4_ActivationNeverAborts ==
    /\ cpc # "ensure" => (cpc = "tier1" \/ (Len(attempted) >= 1 /\ attempted[1] = 1))
    /\ cpc = "raised" => raisedAt \in {2, 4, 5, 6}

C4_Witness ==
    /\ ensure_related_targets_section(ensureIn) = "raise"
    /\ cpc = "returned"

(***************************************************************************)
(* The page as the drill-down reads it, and is_search_list_page.           *)
(*   url       the page's URL (an index into the site's URLs)              *)
(*   headers   the #grid header cells' texts, stripped and lower-cased     *)
(*   hdrRaises the header locator raises                                   *)
(*   html      which of the three markers page.content() contains          *)
(*   contentRaises  page.content() raises                                  *)
(*   rowReady  "#grid .k-grid-content tbody tr" matches a row              *)
(*   cells     per td of the first data row: the href of its anchor (a     *)
(*             URL index), 0 if the cell has no anchor                     *)
(***************************************************************************)
MaxUrl == 2
URLs == 1..MaxUrl

HeaderTexts == {"latin name", "chinese name", "herb id", "herb latin name"}
\* "latin name" in h, "chinese name" in h
HasLatin(h) == h \in {"latin name", "herb latin name"}
HasChinese(h) == h \in {"chinese name"}

Markers == {"#grid", "k-grid-content", "Search by"}

\* the conjunction in place of the two early returns
is_search_list_page_Both(p) ==
    /\ ~p.hdrRaises
    /\ \E i \in 1..Len(p.headers) : HasLatin(p.headers[i]) \/ HasChinese(p.headers[i])
    /\ ~p.contentRaises
    /\ Markers \subseteq p.html

\* lines 242-262
is_search_list_page(p) ==
    IF /\ ~p.hdrRaises
       /\ \/ \E i \in 1..Len(p.headers) : HasLatin(p.headers[i])
          \/ \E i \in 1..Len(p.headers) : HasChinese(p.headers[i])
    THEN TRUE
    ELSE IF p.contentRaises THEN FALSE
    ELSE IF "#grid" \in p.html /\ "k-grid-content" \in p.html /\ "Search by" \in p.html
    THEN TRUE
    ELSE FALSE

\* the third cell's link whatever the headers are
get_latin_link_NoHeaderTest(p) ==
    IF Len(p.cells) < 3 THEN 0 ELSE p.cells[3]

\* lines 265-285: the href of the link, 0 for None
get_latin_link(p) ==
    IF ~p.hdrRaises /\ ~\E i \in 1..Len(p.headers) : HasLatin(p.headers[i]) THEN 0
    ELSE IF Len(p.cells) < 3 THEN 0
    ELSE p.cells[3]

\* lines 288-312: the href found in the markup, 0 for None
extract_latin_href_from_html(p) ==
    IF ~\E i \in 1..Len(p.headers) : HasLatin(p.headers[i]) THEN 0
    ELSE LET latin_idx == CHOOSE i \in 1..Len(p.headers) :
                              /\ HasLatin(p.headers[i])
                              /\ \A j \in 1..(i - 1) : ~HasLatin(p.headers[j])
         IN IF ~p.rowReady THEN 0
            ELSE IF latin_idx > Len(p.cells) THEN 0
            ELSE p.cells[latin_idx]

(***************************************************************************)
(* The classifier on its own: every page, one call.                        *)
(***************************************************************************)
HeaderRows == {<<>>} \cup {<<a>> : a \in HeaderTexts}
                     \cup {<<a, b>> : a \in HeaderTexts, b \in HeaderTexts}

ClassPages ==
    [url : {1}, headers : HeaderRows, hdrRaises : BOOLEAN, html : SUBSET Markers,
     contentRaises : BOOLEAN, rowReady : {TRUE}, cells : {<<>>}]

ClassInit ==
    /\ kpc = "call" /\ kpage \in ClassPages /\ kresult = FALSE
    /\ ChainIdle /\ DrillIdle /\ WalkIdle /\ RestIdle

Classify ==
    /\ kpc = "call"
    /\ kresult' = is_search_list_page(kpage)
    /\ kpc' = "done"
    /\ UNCHANGED kpage
    /\ UNCHANGED <<chainVars, drillVars, walkVars, restVars>>

ClassNext == Classify

ClassSpec == ClassInit /\ [][ClassNext]_vars

\* the header row, as read, has a Latin-name or Chinese-name column
HeaderHit(p) ==
    ~p.hdrRaises /\ \E i \in 1..Len(p.headers) : p.headers[i] \in
                        {"latin name", "herb latin name", "chinese name"}
\* the markup, as read, shows the list view's fingerprint
Fingerprint(p) == ~p.contentRaises /\ p.html = Markers

\* C7 (as claimed): a list view exactly when the header condition AND the
\* fingerprint hold.
C7_ListIffBoth ==
    kpc = "done" => (kresult <=> (HeaderHit(kpage) /\ Fingerprint(kpage)))

\* C7 (amended): a list view exactly when the header condition OR the
\* fingerprint holds; a detail view only when neither does.
C7_ListIffEither ==
    kpc = "done" => (kresult <=> (HeaderHit(kpage) \/ Fingerprint(kpage)))

C7_Witness ==
    kpc = "done" /\ kresult /\ HeaderHit(kpage) /\ ~Fingerprint(kpage)

(***************************************************************************)
(* run_once from line 1141 on, with drill_down_to_detail step by step.     *)
(* The site is free: a navigation to a URL lands on any page with that URL.*)
(***************************************************************************)
\* a bound of five rounds in place of four
MaxDepth_Five == 4 + 1
\* "for depth in range(4)", line 352
MaxDepth == 4
\* a limit of three stagnant rounds in place of two
StagnantLimit_Three == 2 + 1
\* "if stagnant_rounds >= 2", line 391
StagnantLimit == 2

HeaderLayouts == {<<>>, <<"herb id", "chinese name", "latin name">>,
                  <<"latin name", "chinese name">>, <<"chinese name">>}

RowLayouts == {<<>>} \cup {<<0, 0, u>> : u \in URLs} \cup {<<u, 0, 0>> : u \in URLs}

DrillPages ==
    {p \in [url : URLs, headers : HeaderLayouts, hdrRaises : {FALSE},
            html : {{}, Markers}, contentRaises : {FALSE}, rowReady : BOOLEAN,
            cells : RowLayouts] : ~p.rowReady => p.cells = <<>>}

PagesAt(u) == {p \in DrillPages : p.url = u}

DrillLocals == <<depth, last_url, stagnant_rounds, prev_url, rounds>>
RunLocals == <<rpc, chainArg, failCause>>

\* "return page" of lines 359, 366, 371, 381 (detail) and 394 (stuck)
DrillReturn(kind) ==
    /\ dpc' = "returned"
    /\ exit' = kind

\* an exception leaves drill_down_to_detail; at names the call that raised
DrillRaise(at) ==
    /\ dpc' = "raised"
    /\ exit' = at

\* "X is not None and not is_search_list_page(page)" of lines 365 and 370,
\* wrongly returning on a list view
LeftList_Inverted(listed) == listed

\* "not is_search_list_page(page)" of lines 358, 365, 370, 380
LeftList(listed) == ~listed

\* lines 353-359
RoundStart ==
    /\ dpc = "round"
    /\ rounds' = rounds + 1
    /\ navs' = 0
    /\ is_list' = is_search_list_page(page)
    /\ IF LeftList(is_search_list_page(page))
       THEN DrillReturn("detail")
       ELSE dpc' = "wait" /\ exit' = exit
    /\ UNCHANGED <<page, nav_total, depth, last_url, stagnant_rounds, prev_url, RunLocals>>
    /\ UNCHANGED <<chainVars, classVars, walkVars, restVars>>

\* the direct navigation left out
StrategyAfter_NoGoto(place) ==
    IF place = "wait" THEN "click" ELSE IF place = "click" THEN "html" ELSE "endround"

\* lines 361-386: the grid-ready wait, then 1) the click, 2) the direct
\* navigation, 3) the href of the raw HTML, then the end of the round
StrategyAfter(place) ==
    IF place = "wait" THEN "click"
    ELSE IF place = "click" THEN "goto"
    ELSE IF place = "goto" THEN "html"
    ELSE "endround"

\* line 361, wait_for_grid_ready (216-224): the first wait raises on timeout,
\* the second is inside try/except
WaitGridReady ==
    /\ dpc = "wait"
    /\ IF page.rowReady THEN dpc' = StrategyAfter("wait") /\ exit' = exit
       ELSE DrillRaise("wait_for_grid_ready")
    /\ UNCHANGED <<page, nav_total, navs, is_list, DrillLocals, RunLocals>>
    /\ UNCHANGED <<chainVars, classVars, walkVars, restVars>>

\* lines 364-366 with click_latin_link (315-334): the click navigates and
\* returns the page, or fails (with or without having navigated) and returns None
ClickLatin ==
    /\ dpc = "click"
    /\ LET href == get_latin_link(page)
       IN IF href = 0
          THEN /\ dpc' = StrategyAfter("click")
               /\ UNCHANGED <<page, navs, is_list, exit>>
          ELSE \/ \E q \in PagesAt(href) :
                    /\ page' = q
                    /\ navs' = navs + 1
                    /\ is_list' = is_search_list_page(q)
                    /\ IF LeftList(is_search_list_page(q))
                       THEN DrillReturn("detail")
                       ELSE dpc' = StrategyAfter("click") /\ exit' = exit
               \/ \E q \in PagesAt(href) \cup {page} :
                    /\ page' = q
                    /\ navs' = navs + (IF q = page THEN 0 ELSE 1)
                    /\ dpc' = StrategyAfter("click")
                    /\ UNCHANGED <<is_list, exit>>
    /\ nav_total' = nav_total + (navs' - navs)
    /\ UNCHANGED <<DrillLocals, RunLocals>>
    /\ UNCHANGED <<chainVars, classVars, walkVars, restVars>>

\* lines 369-371 with goto_latin_link (337-346): safe_goto is not guarded
GotoLatin ==
    /\ dpc = "goto"
    /\ LET href == get_latin_link(page)
       IN IF href = 0
          THEN /\ dpc' = StrategyAfter("goto")
               /\ UNCHANGED <<page, navs, is_list, exit>>
          ELSE \/ \E q \in PagesAt(href) :
                    /\ page' = q
                    /\ navs' = navs + 1
                    /\ is_list' = is_search_list_page(q)
                    /\ IF LeftList(is_search_list_page(q))
                       THEN DrillReturn("detail")
                       ELSE dpc' = StrategyAfter("goto") /\ exit' = exit
               \/ \E q \in PagesAt(href) \cup {page} :
                    /\ page' = q
                    /\ navs' = navs + (IF q = page THEN 0 ELSE 1)
                    /\ is_list' = is_list
                    /\ DrillRaise("goto_latin_link")
    /\ nav_total' = nav_total + (navs' - navs)
    /\ UNCHANGED <<DrillLocals, RunLocals>>
    /\ UNCHANGED <<chainVars, classVars, walkVars, restVars>>

\* lines 374-383: everything inside try ... except Exception: pass
HtmlFallback ==
    /\ dpc = "html"
    /\ LET href == IF page.contentRaises THEN 0 ELSE extract_latin_href_from_html(page)
       IN IF href = 0
          THEN /\ dpc' = StrategyAfter("html")
               /\ UNCHANGED <<page, navs, is_list, exit>>
          ELSE \/ \E q \in PagesAt(href) :
                    /\ page' = q
                    /\ navs' = navs + 1
                    /\ is_list' = is_search_list_page(q)
                    /\ IF LeftList(is_search_list_page(q))
                       THEN DrillReturn("detail")
                       ELSE dpc' = StrategyAfter("html") /\ exit' = exit
               \/ \E q \in PagesAt(href) \cup {page} :
                    /\ page' = q
                    /\ navs' = navs + (IF q = page THEN 0 ELSE 1)
                    /\ dpc' = StrategyAfter("html")
                    /\ UNCHANGED <<is_list, exit>>
    /\ nav_total' = nav_total + (navs' - navs)
    /\ UNCHANGED <<DrillLocals, RunLocals>>
    /\ UNCHANGED <<chainVars, classVars, walkVars, restVars>>

\* lines 386-394: the stagnation count, the break, the end of the for loop
EndRound ==
    /\ dpc = "endround"
    /\ LET stagnant == IF last_url = page.url THEN stagnant_rounds + 1 ELSE 0
       IN /\ stagnant_rounds' = stagnant
          /\ prev_url' = last_url
          /\ last_url' = page.url
          /\ depth' = depth + 1
          /\ IF stagnant >= StagnantLimit \/ depth + 1 >= MaxDepth
             THEN DrillReturn("stuck")
             ELSE dpc' = "round" /\ exit' = exit
    /\ UNCHANGED <<page, nav_total, rounds, navs, is_list, RunLocals>>
    /\ UNCHANGED <<chainVars, classVars, walkVars, restVars>>

\* a Stuck drill-down treated as a failure
AfterDrill_StuckFails(kind) == IF kind = "detail" THEN "extract" ELSE "failed"

\* lines 1141-1143 and 1157-1171: the returned page goes to the chain
\* whichever way the drill-down returned; its exception ends the run
AfterDrill(kind) == IF kind \in {"detail", "stuck"} THEN "extract" ELSE "failed"

\* line 1141 returning into line 1143, or raising into line 1157
RunAfterDrill ==
    /\ rpc = "drill"
    /\ dpc \in {"returned", "raised"}
    /\ rpc' = AfterDrill(exit)
    /\ IF AfterDrill(exit) = "extract"
       THEN chainArg' = page /\ failCause' = failCause
       ELSE chainArg' = chainArg /\ failCause' = "drill"
    /\ UNCHANGED <<dpc, nav_total, page, navs, is_list, exit, DrillLocals>>
    /\ UNCHANGED <<chainVars, classVars, walkVars, restVars>>

\* line 1143: extract_related_targets returns or raises
RunExtract ==
    /\ rpc = "extract"
    /\ \E ok \in BOOLEAN :
          IF ok THEN rpc' = "post" /\ failCause' = failCause
          ELSE rpc' = "failed" /\ failCause' = "extract"
    /\ UNCHANGED <<dpc, nav_total, page, navs, is_list, exit, chainArg, DrillLocals>>
    /\ UNCHANGED <<chainVars, classVars, walkVars, restVars>>

\* lines 1144-1155: normalize, save, compare with the reference
RunPost ==
    /\ rpc = "post"
    /\ \E ok \in BOOLEAN :
          IF ok THEN rpc' = "done" /\ failCause' = failCause
          ELSE rpc' = "failed" /\ failCause' = "post"
    /\ UNCHANGED <<dpc, nav_total, page, navs, is_list, exit, chainArg, DrillLocals>>
    /\ UNCHANGED <<chainVars, classVars, walkVars, restVars>>

Init ==
    /\ rpc = "drill" /\ dpc = "round"
    /\ page \in DrillPages
    /\ depth = 0 /\ last_url = 0 /\ stagnant_rounds = 0 /\ prev_url = 0
    /\ rounds = 0 /\ navs = 0 /\ nav_total = 0 /\ is_list = FALSE /\ exit = ""
    /\ chainArg = NoPage /\ failCause = ""
    /\ ChainIdle /\ ClassIdle /\ WalkIdle /\ RestIdle

Next ==
    \/ RoundStart
    \/ WaitGridReady
    \/ ClickLatin
    \/ GotoLatin
    \/ HtmlFallback
    \/ EndRound
    \/ RunAfterDrill
    \/ RunExtract
    \/ RunPost

Spec == Init /\ [][Next]_vars

(***************************************************************************)
(* Claims about the drill-down and its caller, under Spec.                 *)
(***************************************************************************)
DrillEnded == dpc \in {"returned", "raised"}


\* how far the drill-down has come: the rounds started, then the place
\* within the round
PlaceInRound ==
    CASE dpc = "wait" -> 1 [] dpc = "click" -> 2 [] dpc = "goto" -> 3
      [] dpc = "html" -> 4 [] dpc = "endround" -> 5 [] dpc = "round" -> 6
      [] OTHER -> 7
Progress == rounds * 8 + PlaceInRound

\* C5: whatever the site does, the loop starts at most 4 rounds and cannot
\* run forever: until the drill-down has returned or raised a step is
\* always possible, and every step moves it forward, within 4 rounds.
C5_AtMostFourRounds ==
    /\ [](rounds <= 4 /\ (DrillEnded \/ ENABLED Next))
    /\ [][~DrillEnded => Progress' > Progress]_vars

\* four rounds on a list view whose link leads back to a list view
C5_Witness ==
    /\ dpc = "returned" /\ exit = "stuck" /\ rounds = 4
    /\ is_search_list_page(page) /\ get_latin_link(page) # 0

\* C6 (as claimed): if the URL at the end of a round equals the URL at the
\* end of the round before, the machine is Stuck there and starts no round.
C6_StuckOnFirstRepeat ==
    [][(dpc = "endround" /\ last_url = page.url)
          => (dpc' = "returned" /\ exit' = "stuck")]_vars


\* C6 (amended): if the URL at the end of a round equals the URL at the end
\* of each of the two rounds before it, the machine is Stuck there and
\* starts no further round.
C6_StuckOnSecondRepeat ==
    [][(dpc = "endround" /\ last_url = page.url /\ prev_url = page.url)
          => (dpc' = "returned" /\ exit' = "stuck")]_vars

C6_Witness ==
    /\ dpc = "returned" /\ exit = "stuck" /\ rounds = 3
    /\ last_url = page.url /\ prev_url = page.url

C9_StuckIsNotAnError ==
    exit = "stuck" =>
       /\ dpc = "returned"
       /\ rpc = "failed" => failCause \in {"extract", "post"}
       /\ rpc # "drill" => (rpc \in {"extract", "post", "done", "failed"} /\ chainArg = page)

C9_Witness == exit = "stuck" /\ rpc = "done" /\ is_search_list_page(chainArg)

\* C20: in a round the click is attempted first, the direct navigation
\* only after the click, the raw-HTML href only after the direct navigation;
\* while a strategy is about to be attempted the latest classification of
\* the view is "list"; and a classification as "not a list" returns the page
\* at once.
C20_StrategiesInOrder ==
    /\ [](dpc \in {"wait", "click", "goto", "html", "endround"} => is_list)
    /\ []((rounds > 0 /\ ~is_list) => (dpc = "returned" /\ exit = "detail"))
    /\ [][/\ (dpc' = "click" /\ dpc # "click") => dpc = "wait"
          /\ (dpc' = "goto" /\ dpc # "goto") => dpc = "click"
          /\ (dpc' = "html" /\ dpc # "html") => dpc = "goto"
          /\ (dpc' = "endround" /\ dpc # "endround") => dpc = "html"
          /\ (dpc # "returned" /\ dpc' = "returned" /\ exit' = "detail") =>
                (dpc \in {"round", "click", "goto", "html"} /\ ~is_search_list_page(page'))]_vars

\* a round in which the click and the direct navigation each led to a list
\* view and the raw-HTML href led to a detail view
C20_Witness ==
    /\ dpc = "returned" /\ exit = "detail" /\ navs = 3 /\ rounds = 1
    /\ ~is_search_list_page(page)

\* the anchor of the first row's cell under the first header that holds
\* "latin name"; 0 if there is no such header, cell or anchor
LatinCell(p) ==
    IF ~\E i \in 1..Len(p.headers) : HasLatin(p.headers[i]) THEN 0
    ELSE LET c == CHOOSE i \in 1..Len(p.headers) :
                      /\ HasLatin(p.headers[i])
                      /\ \A j \in 1..(i - 1) : ~HasLatin(p.headers[j])
         IN IF c > Len(p.cells) THEN 0 ELSE p.cells[c]

\* C21 (as claimed): on every page a strategy works on, the click and the
\* direct navigation (get_latin_link) and the raw-HTML recovery
\* (extract_latin_href_from_html) resolve to the same link, the anchor under
\* the "Latin name" header, wherever that header stands.
C21_SameLatinAnchor ==
    dpc \in {"click", "goto", "html"} =>
       /\ get_latin_link(page) = LatinCell(page)
       /\ extract_latin_href_from_html(page) = LatinCell(page)

(***************************************************************************)
(* extract_kendo_grid_all_pages, page by page.  The widget renders, on     *)
(* each read, any rows: the same row may show on two pages or twice on one.*)
(***************************************************************************)
MaxPages == 2
MaxPageRows == 2

\* raw rows as read_grid_table returns them: the cells' stripped texts
RawRows == {<<"a">>, <<"a", "b", "c">>, <<"a", "b", "d">>}

RECURSIVE SeqsUpTo(_, _)
SeqsUpTo(S, n) ==
    IF n = 0 THEN {<<>>}
    ELSE LET shorter == SeqsUpTo(S, n - 1)
         IN shorter \cup {Append(q, x) : q \in {t \in shorter : Len(t) = n - 1}, x \in S}

\* what "#grid2 .k-grid-content tbody tr" may show on one read
PageRows == SeqsUpTo(RawRows, MaxPageRows)

\* the header cells' texts as read_grid_table returns them
GridHeaders == {<<"id", "name">>, <<"id", "ID">>, <<"target  name", "id">>}

\* re.sub(r"\s+", " ", h).strip() or "col"
Collapse(h) == IF h = "target  name" THEN "target name" ELSE IF h = "" THEN "col" ELSE h
\* h.lower()
Lower(h) == IF h = "ID" THEN "id" ELSE h

\* lines 397-408
normalize_headers(hs) ==
    [i \in 1..Len(hs) |->
        LET h == Collapse(hs[i])
            count == Cardinality({j \in 1..i : Lower(Collapse(hs[j])) = Lower(h)})
        IN IF count > 1 THEN h \o "_" \o ToString(count) ELSE h]

\* rows appended without looking at seen
Merge_NoSkip(acc, page_rows) == acc \o page_rows

\* only the first row of each page is looked at
Merge_FirstRowOnly(acc, page_rows) ==
    IF page_rows = <<>> \/ (\E i \in 1..Len(acc) : acc[i] = Head(page_rows)) THEN acc
    ELSE Append(acc, Head(page_rows))

\* lines 722-727: append each row of the page whose tuple is not yet seen
RECURSIVE Merge(_, _)
Merge(acc, page_rows) ==
    IF page_rows = <<>> THEN acc
    ELSE LET row == Head(page_rows)
         IN IF \E i \in 1..Len(acc) : acc[i] = row
            THEN Merge(acc, Tail(page_rows))
            ELSE Merge(Append(acc, row), Tail(page_rows))

\* the row as read, neither padded nor cut
FitRow_AsRead(row, n) == [j \in 1..Len(row) |-> <<"str", row[j]>>]

\* lines 736-741: pad with "" or cut to the number of columns
FitRow(row, n) ==
    [j \in 1..n |-> IF j <= Len(row) THEN <<"str", row[j]>> ELSE <<"str", "">>]

WalkLocals == <<page_num, current_page, total_pages, headers, rows, seen, reads>>

WalkRaise ==
    /\ wpc' = "raised"
    /\ UNCHANGED <<gridPage, WalkLocals, table>>

\* lines 699-709; grid.n = 0: no widget, get_kendo_state returns null
WalkStart ==
    /\ wpc = "start"
    /\ IF grid.n = 0
       THEN WalkRaise
       ELSE /\ total_pages' = grid.n
            /\ current_page' = gridPage
            /\ page_num' = 1
            /\ headers' = <<>> /\ rows' = <<>> /\ seen' = {}
            /\ wpc' = "setpage"
            /\ UNCHANGED <<gridPage, reads, table>>
    /\ state_reads' = state_reads + 1
    /\ UNCHANGED <<grid, commands>>
    /\ UNCHANGED <<chainVars, drillVars, classVars, restVars>>

\* lines 712-713 with set_kendo_page (629-655): the widget takes the page,
\* or the widget is gone and False is returned (and dropped), or the wait
\* for the page to become current times out
SetPage ==
    /\ wpc = "setpage"
    /\ IF page_num # current_page
       THEN \/ gridPage' = page_num /\ wpc' = "read" /\ UNCHANGED <<WalkLocals, table>>
            \/ gridPage' = gridPage /\ wpc' = "read" /\ UNCHANGED <<WalkLocals, table>>
            \/ WalkRaise
       ELSE gridPage' = gridPage /\ wpc' = "read" /\ UNCHANGED <<WalkLocals, table>>
    /\ commands' = IF page_num # current_page THEN commands + 1 ELSE commands
    /\ UNCHANGED <<grid, state_reads>>
    /\ UNCHANGED <<chainVars, drillVars, classVars, restVars>>

\* lines 714-729: wait_for_grid_idle and wait_for_selector raise on timeout
\* (no row rendered); then the rows shown are read and merged
ReadPage ==
    /\ wpc = "read"
    /\ \/ WalkRaise
       \/ \E page_rows \in PageRows :
            IF page_rows = <<>>
            THEN WalkRaise
            ELSE /\ headers' = IF headers = <<>> THEN grid.hdr ELSE headers
                 /\ rows' = Merge(rows, page_rows)
                 /\ seen' = seen \cup {page_rows[i] : i \in 1..Len(page_rows)}
                 /\ reads' = reads \o [i \in 1..Len(page_rows) |-> <<page_num, page_rows[i]>>]
                 /\ current_page' = page_num
                 /\ IF page_num + 1 <= total_pages
                    THEN page_num' = page_num + 1 /\ wpc' = "setpage"
                    ELSE page_num' = page_num /\ wpc' = "finish"
                 /\ UNCHANGED <<gridPage, total_pages, table>>
    /\ UNCHANGED <<grid, state_reads, commands>>
    /\ UNCHANGED <<chainVars, drillVars, classVars, restVars>>

\* lines 731-742
WalkFinish ==
    /\ wpc = "finish"
    /\ table' = IF headers = <<>> THEN EmptyDF
                ELSE LET normalized == normalize_headers(headers)
                     IN DataFrame(normalized,
                                  [i \in 1..Len(rows) |-> FitRow(rows[i], Len(normalized))])
    /\ wpc' = "returned"
    /\ UNCHANGED <<grid, gridPage, WalkLocals, state_reads, commands>>
    /\ UNCHANGED <<chainVars, drillVars, classVars, restVars>>

WalkInit ==
    /\ wpc = "start"
    /\ grid \in [n : 0..MaxPages, hdr : GridHeaders]
    /\ gridPage \in 1..MaxPages /\ gridPage <= (IF grid.n = 0 THEN 1 ELSE grid.n)
    /\ page_num = 0 /\ current_page = 0 /\ total_pages = 0
    /\ headers = <<>> /\ rows = <<>> /\ seen = {} /\ reads = <<>> /\ table = NoneDF
    /\ state_reads = 0 /\ commands = 0
    /\ ChainIdle /\ DrillIdle /\ ClassIdle /\ RestIdle

WalkNext ==
    \/ WalkStart
    \/ SetPage
    \/ ReadPage
    \/ WalkFinish

WalkSpec == WalkInit /\ [][WalkNext]_vars

(***************************************************************************)
(* Claims about the walk, under WalkSpec.                                  *)
(***************************************************************************)
\* the place of a row's first read
FirstRead(row) == CHOOSE i \in 1..Len(reads) :
                     /\ reads[i][2] = row
                     /\ \A j \in 1..(i - 1) : reads[j][2] # row

ReadsOfPage(p) == {i \in 1..Len(reads) : reads[i][1] = p}
PagesRead == {reads[i][1] : i \in 1..Len(reads)}
DistinctOfPage(p) == {reads[i][2] : i \in ReadsOfPage(p)}

C22_EachPageReadInPlace ==
    /\ \A i, j \in 1..Len(reads) : i < j => reads[i][1] <= reads[j][1]
    /\ reads # <<>> => PagesRead = 1..reads[Len(reads)][1]
    /\ wpc = "returned" => PagesRead = 1..total_pages
    /\ (reads # <<>> /\ wpc \in {"setpage", "finish", "returned"}) =>
          gridPage = reads[Len(reads)][1]

\* the same without the widget's page: ascending order, no page left out
C22_PagesInOrder ==
    /\ \A i, j \in 1..Len(reads) : i < j => reads[i][1] <= reads[j][1]
    /\ reads # <<>> => PagesRead = 1..reads[Len(reads)][1]
    /\ wpc = "returned" => PagesRead = 1..total_pages

\* C12: every row of the returned table has exactly one cell per column; the
\* cells a row was read with stand unchanged in its first places, a shorter
\* row is filled with empty strings, a longer row loses its last cells.
C12_RowsFitColumns ==
    wpc = "returned" =>
       /\ Len(table.rows) = Len(rows)
       /\ \A i \in 1..Len(table.rows) :
             /\ Len(table.rows[i]) = Len(table.cols)
             /\ \A c \in 1..Len(table.cols) :
                   table.rows[i][c] =
                      IF c <= Len(rows[i]) THEN <<"str", rows[i][c]>> ELSE <<"str", "">>

\* a table with a padded row and a cut row
C12_Witness ==
    /\ wpc = "returned"
    /\ \E i \in 1..Len(rows) : Len(rows[i]) < Len(table.cols)
    /\ \E i \in 1..Len(rows) : Len(rows[i]) > Len(table.cols)

(***************************************************************************)
(* normalize_headers applied to any list of header texts.                  *)
(***************************************************************************)
MaxHeaders == 3

\* header texts: equal ones, ones equal but for case, one that has the form
\* of a suffixed name, one with inner whitespace, an empty one
HeaderNames == {"id", "ID", "id_2", "target  name", ""}

HdrInit ==
    /\ hpc = "call"
    /\ hin \in SeqsUpTo(HeaderNames, MaxHeaders)
    /\ hout = <<>>
    /\ ChainIdle /\ DrillIdle /\ ClassIdle /\ WalkIdle /\ NormIdle /\ RetryIdle /\ OnceIdle /\ EnsIdle /\ ScanIdle /\ LogIdle

\* lines 397-408
NormalizeHeaders ==
    /\ hpc = "call"
    /\ hout' = normalize_headers(hin)
    /\ hpc' = "returned"
    /\ UNCHANGED hin
    /\ UNCHANGED <<chainVars, drillVars, classVars, walkVars, normVars, retryVars, onceVars, ensVars, scanVars, logVars>>

HdrNext == NormalizeHeaders

HdrSpec == HdrInit /\ [][HdrNext]_vars

\* C13 (as claimed): the returned list is as long as the argument and no two
\* of its entries are equal, whatever the argument, an already suffixed
\* name included.
C13_OutputsDistinct ==
    hpc = "returned" =>
       /\ Len(hout) = Len(hin)
       /\ \A i, j \in 1..Len(hout) : i # j => hout[i] # hout[j]

(***************************************************************************)
(* normalize_related_targets_df applied to the tables the tiers can hand   *)
(* over: canonical columns in any order, each at most once, and other      *)
(* columns, whose names normalize_headers may have made equal.             *)
(***************************************************************************)
MaxCols == 3

ExtraNames == {"note", "id", "id_2"}
ColumnNames == {"target_name", "molecule_ID", "SVM_score"} \cup ExtraNames
\* the names normalize_headers can return twice (line 406 gives "id_2" to a
\* second "id" and line 407 keeps a header that reads "id_2")
TwiceNames == {"id_2"}

IsCanonical(c) == \E k \in 1..Len(RELATED_COLUMNS) : RELATED_COLUMNS[k] = c

ColumnLists ==
    {cs \in SeqsUpTo(ColumnNames, MaxCols) :
        \A i, j \in 1..Len(cs) : (i # j /\ cs[i] = cs[j]) => cs[i] \in TwiceNames}

\* the cell of the i-th column: every column holds its own text
CellAt(i) == <<"str", IF i = 1 THEN "1" ELSE IF i = 2 THEN "2" ELSE "0.8">>

\* the texts of an identifier cell: integers, a float, a text that is no
\* number, the empty string
IdTexts == {"1", "2", "0.8", "TAR1", ""}

\* tables of one or two rows with both identifier columns
IdTables ==
    {DataFrame(<<"target_ID", "molecule_ID">>,
               [r \in 1..Len(q) |-> <<(<<"str", q[r][1]>>), (<<"str", q[r][2]>>)>>]) :
        q \in SeqsUpTo(IdTexts \X IdTexts, 2) \ {<<>>}}

NormInit ==
    /\ npc = "call"
    /\ \/ \E cs \in ColumnLists, n \in 0..1 :
             nin = DataFrame(cs, [r \in 1..n |-> [i \in 1..Len(cs) |-> CellAt(i)]])
       \/ nin \in IdTables
    /\ nout = NoneDF
    /\ nagain = NoneDF
    /\ ChainIdle /\ DrillIdle /\ ClassIdle /\ WalkIdle /\ HdrIdle /\ RetryIdle /\ OnceIdle /\ EnsIdle /\ ScanIdle /\ LogIdle

\* lines 869-885
NormalizeDF ==
    /\ npc = "call"
    /\ nout' = normalize_related_targets_df(nin)
    /\ npc' = "returned"
    /\ UNCHANGED <<nin, nagain>>
    /\ UNCHANGED <<chainVars, drillVars, classVars, walkVars, hdrVars, retryVars, onceVars, ensVars, scanVars, logVars>>

\* line 1144: run_once normalizes the table the chain returned, which the
\* chain has normalized already at lines 955, 961, 967 and 977
NormalizeAgain ==
    /\ npc = "returned"
    /\ nagain' = normalize_related_targets_df(nout)
    /\ npc' = "again"
    /\ UNCHANGED <<nin, nout>>
    /\ UNCHANGED <<chainVars, drillVars, classVars, walkVars, hdrVars, retryVars, onceVars, ensVars, scanVars, logVars>>

NormNext == NormalizeDF \/ NormalizeAgain

NormSpec == NormInit /\ [][NormNext]_vars

\* the canonical names among cs in RELATED_COLUMNS order, then the others as
\* they stand in cs
CanonicalFirst(cs) ==
    SelectSeq(RELATED_COLUMNS, LAMBDA c : HasCol(cs, c))
       \o SelectSeq(cs, LAMBDA c : ~IsCanonical(c))

\* C14 (as claimed): the returned table has the argument's columns, each
\* once: the canonical ones first in RELATED_COLUMNS order, the others after
\* them in their original order; none added, dropped or duplicated.
C14_CanonicalFirstSameColumns ==
    npc = "returned" =>
       /\ nout.cols = CanonicalFirst(nin.cols)
       /\ Len(nout.cols) = Len(nin.cols)

\* the same, for the arguments whose column names are pairwise distinct
C14_HoldsOnDistinctNames ==
    (npc = "returned" /\ \A i, j \in 1..Len(nin.cols) : i # j => nin.cols[i] # nin.cols[j]) =>
       /\ nout.cols = CanonicalFirst(nin.cols)
       /\ Len(nout.cols) = Len(nin.cols)

(***************************************************************************)
(* retry(action, attempts, sleep_sec), attempts >= 1.  The action is the   *)
(* environment: each invocation returns a value or raises an exception.    *)
(***************************************************************************)
MaxAttempts == 4

\* what an invocation may return (None among them) and raise
Values == {"None", "locator"}
Exceptions == {"TimeoutError", "RuntimeError"}

\* the sleep follows every failed invocation
SleepsAfter_Always(i, n) == TRUE

\* line 109
SleepsAfter(i, n) == i < n - 1

RetryInit ==
    /\ tpc = "call"
    /\ attempts \in 1..MaxAttempts
    /\ ti = 0 /\ last_exc = "" /\ tout = <<"", "">> /\ events = <<>>
    /\ ChainIdle /\ DrillIdle /\ ClassIdle /\ WalkIdle /\ HdrIdle /\ NormIdle /\ OnceIdle /\ EnsIdle /\ ScanIdle /\ LogIdle

\* lines 104-109: one pass of the loop body up to the sleep
RetryCall ==
    /\ tpc = "call"
    /\ \/ \E v \in Values :
            /\ events' = Append(events, <<"call", "returns", v>>)
            /\ tout' = <<"returned", v>>
            /\ tpc' = "returned"
            /\ UNCHANGED <<ti, last_exc>>
       \/ \E exc \in Exceptions :
            /\ events' = Append(events, <<"call", "raises", exc>>)
            /\ last_exc' = exc
            /\ tpc' = IF SleepsAfter(ti, attempts) THEN "sleep"
                      ELSE IF ti + 1 < attempts THEN "call" ELSE "raise"
            /\ ti' = IF SleepsAfter(ti, attempts) \/ ti + 1 >= attempts THEN ti ELSE ti + 1
            /\ UNCHANGED tout
    /\ UNCHANGED attempts
    /\ UNCHANGED <<chainVars, drillVars, classVars, walkVars, hdrVars, normVars, onceVars, ensVars, scanVars, logVars>>

\* line 110, then the next pass of the loop or its end
RetrySleep ==
    /\ tpc = "sleep"
    /\ events' = Append(events, <<"sleep", "", "">>)
    /\ tpc' = IF ti + 1 < attempts THEN "call" ELSE "raise"
    /\ ti' = IF ti + 1 < attempts THEN ti + 1 ELSE ti
    /\ UNCHANGED <<attempts, last_exc, tout>>
    /\ UNCHANGED <<chainVars, drillVars, classVars, walkVars, hdrVars, normVars, onceVars, ensVars, scanVars, logVars>>

\* line 111
RetryRaise ==
    /\ tpc = "raise"
    /\ tout' = <<"raised", last_exc>>
    /\ tpc' = "raised"
    /\ UNCHANGED <<attempts, ti, last_exc, events>>
    /\ UNCHANGED <<chainVars, drillVars, classVars, walkVars, hdrVars, normVars, onceVars, ensVars, scanVars, logVars>>

RetryNext ==
    \/ RetryCall
    \/ RetrySleep
    \/ RetryRaise

RetrySpec == RetryInit /\ [][RetryNext]_vars

Calls == SelectSeq(events, LAMBDA e : e[1] = "call")
RetryEnded == tpc \in {"returned", "raised"}

\* C16: action is invoked at most attempts times; retry returns the value of
\* the first invocation that does not raise, which is the last invocation
\* made; it raises only after attempts invocations that all raised, and then
\* the exception of the last one; every sleep stands between a failed
\* invocation and the next invocation, and none follows the last invocation.
C16_BoundedRetry ==
    /\ Len(Calls) <= attempts
    /\ \A k \in 1..Len(events) :
          events[k][1] = "sleep" =>
             /\ k > 1 /\ events[k - 1][1] = "call" /\ events[k - 1][2] = "raises"
             /\ RetryEnded => (k < Len(events) /\ events[k + 1][1] = "call")
    /\ \A k \in 1..(Len(events) - 1) :
          events[k][1] = "call" => (events[k][2] = "raises" /\ events[k + 1][1] = "sleep")
    /\ tpc = "returned" =>
          /\ events[Len(events)] = <<"call", "returns", tout[2]>>
          /\ tout[1] = "returned"
    /\ tpc = "raised" =>
          /\ Len(Calls) = attempts
          /\ \A k \in 1..Len(Calls) : Calls[k][2] = "raises"
          /\ tout = <<"raised", Calls[attempts][3]>>
          /\ events[Len(events)][1] = "call"

\* three invocations raised different exceptions and retry raised the last
C16_Witness ==
    /\ tpc = "raised" /\ attempts = 3
    /\ Calls[1][3] # Calls[3][3]
    /\ Len(events) = 5

(***************************************************************************)
(* run_once as a whole: the calls of its try block, its except clause and  *)
(* its finally clause.  The drill-down and the chain appear with the waits *)
(* they make and with the outcomes their own specifications establish.     *)
(***************************************************************************)
MaxEntry == 2

\* one pass of open_entry fails for good
RETRY_ATTEMPTS_Once == 3 - 2

\* line 28
RETRY_ATTEMPTS == 3

\* no handler encloses any wait
Caught_Nowhere(w) == FALSE

\* the waits whose timeout an enclosing handler takes: lines 219-224 (second
\* wait of wait_for_grid_ready), 947-950 (the activation), 964-969 (tier 3:
\* set_kendo_page, wait_for_grid_idle, wait_for_selector)
Caught(w) == w \in {"grid_ready_2", "ensure", "set_page", "grid_idle", "grid_rows"}

\* the search had no result but the run goes on to the drill-down
AfterSearch_AlwaysDrill(none) == "drill"

\* lines 1133-1141
AfterSearch(none) == IF none THEN "save_empty" ELSE "drill"

\* the except clause ends without raising
ExceptEnds_Swallow(exc) == ""

\* line 1171: raise
ExceptEnds(exc) == exc

\* the call ev returned; go on at next
Step(ev, next) ==
    /\ olog' = Append(olog, ev)
    /\ opc' = next
    /\ UNCHANGED <<failed, pending, saved, oend>>

\* the call ev raised inside the try block: lines 1157
Fail(ev) ==
    /\ olog' = Append(olog, ev)
    /\ failed' = ev
    /\ pending' = ev
    /\ opc' = "except"
    /\ UNCHANGED <<saved, oend>>

\* a wait that timed out: its exception is taken by the enclosing handler and
\* the code goes on at next, or it travels up to run_once's except clause
Timeout(w, next) ==
    IF Caught(w) THEN Step("timeout:" \o w, next) ELSE Fail("timeout:" \o w)

\* lines 172-181 inside retry (1119): safe_goto of the entry URL idx; when
\* the last URL failed, open_entry raises and retry sleeps and calls it
\* again, attempts times in all
OnceOpenEntry ==
    /\ opc = "open_entry"
    /\ \/ Step("goto_ok", "find_input") /\ pass' = 0 /\ eidx' = eidx
       \/ IF eidx < entries
          THEN Step("goto_failed", "open_entry") /\ eidx' = eidx + 1 /\ pass' = pass
          ELSE IF pass + 1 < RETRY_ATTEMPTS
          THEN Step("goto_failed", "open_entry") /\ eidx' = 1 /\ pass' = pass + 1
          ELSE Fail("goto_failed") /\ UNCHANGED <<pass, eidx>>
    /\ UNCHANGED entries
    /\ UNCHANGED <<chainVars, drillVars, classVars, walkVars, hdrVars, normVars, retryVars, ensVars, scanVars, logVars>>

\* lines 1120-1125: close_daily_popup, log_state, then find_search_input
\* inside retry: it returns a locator, or None (retry returns it at once and
\* line 1124 raises), or a locator call raises and retry calls it again
OnceFindInput ==
    /\ opc = "find_input"
    /\ \/ Step("find_input_found", "click_search") /\ pass' = pass
       \/ Fail("find_input_none") /\ pass' = pass
       \/ IF pass + 1 < RETRY_ATTEMPTS
          THEN Step("find_input_raised", "find_input") /\ pass' = pass + 1
          ELSE Fail("find_input_raised") /\ pass' = pass
    /\ UNCHANGED <<entries, eidx>>
    /\ UNCHANGED <<chainVars, drillVars, classVars, walkVars, hdrVars, normVars, retryVars, ensVars, scanVars, logVars>>

\* lines 1125-1127: fill, then click_search returns True or False
OnceClickSearch ==
    /\ opc = "click_search"
    /\ \/ Step("click_search_true", "wait_load")
       \/ Fail("click_search_false")
       \/ Fail("fill_raised")
    /\ UNCHANGED <<entries, pass, eidx>>
    /\ UNCHANGED <<chainVars, drillVars, classVars, walkVars, hdrVars, normVars, retryVars, ensVars, scanVars, logVars>>

\* lines 1129-1133: wait_for_load_state, then search_has_no_results
OnceAfterSearch ==
    /\ opc = "wait_load"
    /\ \/ Timeout("load_state", "wait_load")
       \/ \E none \in BOOLEAN :
            Step(IF none THEN "no_results" ELSE "has_results", AfterSearch(none))
    /\ UNCHANGED <<entries, pass, eidx>>
    /\ UNCHANGED <<chainVars, drillVars, classVars, walkVars, hdrVars, normVars, retryVars, ensVars, scanVars, logVars>>

\* lines 1134-1139: the empty table is saved and run_once returns
OnceSaveEmpty ==
    /\ opc = "save_empty"
    /\ saved' = DataFrame(RELATED_COLUMNS, <<>>)
    /\ \/ /\ olog' = Append(olog, "save_ok") /\ opc' = "finally"
          /\ UNCHANGED <<failed, pending, oend>>
       \/ /\ olog' = Append(olog, "save_raised") /\ opc' = "except"
          /\ failed' = "save_raised" /\ pending' = "save_raised" /\ oend' = oend
    /\ UNCHANGED <<entries, pass, eidx>>
    /\ UNCHANGED <<chainVars, drillVars, classVars, walkVars, hdrVars, normVars, retryVars, ensVars, scanVars, logVars>>

\* lines 1141, 353-359: the view is classified at the start of the round
OnceDrillStart ==
    /\ opc = "drill"
    /\ \/ Step("drill_detail", "ensure")
       \/ Step("drill_list", "grid_ready")
    /\ UNCHANGED <<entries, pass, eidx>>
    /\ UNCHANGED <<chainVars, drillVars, classVars, walkVars, hdrVars, normVars, retryVars, ensVars, scanVars, logVars>>

\* lines 361, 216-224: the two waits of wait_for_grid_ready
OnceWaitGridReady ==
    /\ opc = "grid_ready"
    /\ \/ Timeout("grid_ready_1", "drill_rest")
       \/ Timeout("grid_ready_2", "drill_rest")
       \/ Step("grid_ready_ok", "drill_rest")
    /\ UNCHANGED <<entries, pass, eidx>>
    /\ UNCHANGED <<chainVars, drillVars, classVars, walkVars, hdrVars, normVars, retryVars, ensVars, scanVars, logVars>>

\* lines 363-394: the rest of the drill-down returns the page, on a detail
\* view or stuck on a list view, or raises
OnceDrillRest ==
    /\ opc = "drill_rest"
    /\ \E kind \in {"detail", "stuck", "raised"} :
          IF AfterDrill(kind) = "extract"
          THEN Step("drill_" \o kind, "ensure")
          ELSE Fail("drill_raised")
    /\ UNCHANGED <<entries, pass, eidx>>
    /\ UNCHANGED <<chainVars, drillVars, classVars, walkVars, hdrVars, normVars, retryVars, ensVars, scanVars, logVars>>

\* lines 947-950, with the wait of line 606
OnceEnsure ==
    /\ opc = "ensure"
    /\ \/ Step("ensure_ok", "tier1")
       \/ Timeout("ensure", "tier1")
    /\ UNCHANGED <<entries, pass, eidx>>
    /\ UNCHANGED <<chainVars, drillVars, classVars, walkVars, hdrVars, normVars, retryVars, ensVars, scanVars, logVars>>

\* lines 953-955
OnceTier1 ==
    /\ opc = "tier1"
    /\ \/ Step("tier1_yields", "save")
       \/ Step("tier1_nothing", "tier2")
    /\ UNCHANGED <<entries, pass, eidx>>
    /\ UNCHANGED <<chainVars, drillVars, classVars, walkVars, hdrVars, normVars, retryVars, ensVars, scanVars, logVars>>

\* lines 958-961
OnceTier2 ==
    /\ opc = "tier2"
    /\ \/ Step("tier2_yields", "save")
       \/ Step("tier2_nothing", "tier3")
       \/ Fail("tier2_raised")
    /\ UNCHANGED <<entries, pass, eidx>>
    /\ UNCHANGED <<chainVars, drillVars, classVars, walkVars, hdrVars, normVars, retryVars, ensVars, scanVars, logVars>>

\* lines 964-969: the walk with its waits (set_kendo_page 641-654,
\* wait_for_grid_idle 658-668, wait_for_selector 715)
OnceTier3 ==
    /\ opc = "tier3"
    /\ \/ Step("tier3_yields", "save")
       \/ Step("tier3_nothing", "tier4")
       \/ \E w \in {"set_page", "grid_idle", "grid_rows"} : Timeout(w, "tier4")
    /\ UNCHANGED <<entries, pass, eidx>>
    /\ UNCHANGED <<chainVars, drillVars, classVars, walkVars, hdrVars, normVars, retryVars, ensVars, scanVars, logVars>>

\* lines 971-973
OnceTier4 ==
    /\ opc = "tier4"
    /\ \/ Step("tier4_yields", "save")
       \/ Step("tier4_nothing", "tier5")
       \/ Fail("tier4_raised")
    /\ UNCHANGED <<entries, pass, eidx>>
    /\ UNCHANGED <<chainVars, drillVars, classVars, walkVars, hdrVars, normVars, retryVars, ensVars, scanVars, logVars>>

\* lines 975-979
OnceTier5 ==
    /\ opc = "tier5"
    /\ \/ Step("tier5_yields", "save")
       \/ Fail("chain_exhausted")
    /\ UNCHANGED <<entries, pass, eidx>>
    /\ UNCHANGED <<chainVars, drillVars, classVars, walkVars, hdrVars, normVars, retryVars, ensVars, scanVars, logVars>>

\* lines 1144-1145
OnceSave ==
    /\ opc = "save"
    /\ saved' = normalize_related_targets_df(TabA)
    /\ \/ /\ olog' = Append(olog, "save_ok") /\ opc' = "compare"
          /\ UNCHANGED <<failed, pending, oend>>
       \/ /\ olog' = Append(olog, "save_raised") /\ opc' = "except"
          /\ failed' = "save_raised" /\ pending' = "save_raised" /\ oend' = oend
    /\ UNCHANGED <<entries, pass, eidx>>
    /\ UNCHANGED <<chainVars, drillVars, classVars, walkVars, hdrVars, normVars, retryVars, ensVars, scanVars, logVars>>

\* lines 1149-1155
OnceCompare ==
    /\ opc = "compare"
    /\ \/ Step("no_reference", "finally")
       \/ Step("compare_matched", "finally")
       \/ Fail("compare_mismatch")
    /\ UNCHANGED <<entries, pass, eidx>>
    /\ UNCHANGED <<chainVars, drillVars, classVars, walkVars, hdrVars, normVars, retryVars, ensVars, scanVars, logVars>>

\* lines 1157-1171: dump_debug (it takes its own exceptions), error.txt
\* written outside any try, xhr_log.json written inside one, raise
OnceExcept ==
    /\ opc = "except"
    /\ \/ \E xhr \in {"xhr_log_written", "xhr_log_failed"} :
            /\ olog' = olog \o <<"snapshot", "error_text_written", xhr>>
            /\ pending' = ExceptEnds(pending)
       \/ /\ olog' = olog \o <<"snapshot", "error_text_raised">>
          /\ pending' = "error_text_raised"
    /\ opc' = "finally"
    /\ UNCHANGED <<entries, pass, eidx, failed, saved, oend>>
    /\ UNCHANGED <<chainVars, drillVars, classVars, walkVars, hdrVars, normVars, retryVars, ensVars, scanVars, logVars>>

XhrLogExists == \E k \in 1..Len(olog) : olog[k] = "xhr_log_written"

\* lines 1187-1188: context.close() returns and browser.close() returns or
\* raises, or context.close() raises and line 1188 is not reached
Closings ==
    { <<"context_closed", "browser_closed">>,
      <<"context_closed", "browser_close_raised">>,
      <<"context_close_raised">> }

\* lines 1172-1188: xhr_log.json written if it is not there, then
\* context.close() and browser.close() outside any try
OnceFinally ==
    /\ opc = "finally"
    /\ \E xhr \in {"xhr_log_written", "xhr_log_failed"}, close \in Closings :
          /\ olog' = (IF XhrLogExists THEN olog ELSE Append(olog, xhr)) \o close
          /\ pending' = IF close[Len(close)] # "browser_closed" THEN "close_raised" ELSE pending
          /\ oend' = IF pending' = "" THEN "returned" ELSE "raised"
    /\ opc' = "ended"
    /\ UNCHANGED <<entries, pass, eidx, failed, saved>>
    /\ UNCHANGED <<chainVars, drillVars, classVars, walkVars, hdrVars, normVars, retryVars, ensVars, scanVars, logVars>>

OnceInit ==
    /\ opc = "open_entry"
    /\ entries \in 1..MaxEntry
    /\ pass = 0 /\ eidx = 1 /\ olog = <<>>
    /\ failed = "" /\ pending = "" /\ saved = NoneDF /\ oend = ""
    /\ ChainIdle /\ DrillIdle /\ ClassIdle /\ WalkIdle /\ HdrIdle /\ NormIdle /\ RetryIdle /\ EnsIdle /\ ScanIdle /\ LogIdle

OnceNext ==
    \/ OnceOpenEntry
    \/ OnceFindInput
    \/ OnceClickSearch
    \/ OnceAfterSearch
    \/ OnceSaveEmpty
    \/ OnceDrillStart
    \/ OnceWaitGridReady
    \/ OnceDrillRest
    \/ OnceEnsure
    \/ OnceTier1
    \/ OnceTier2
    \/ OnceTier3
    \/ OnceTier4
    \/ OnceTier5
    \/ OnceSave
    \/ OnceCompare
    \/ OnceExcept
    \/ OnceFinally

OnceSpec == OnceInit /\ [][OnceNext]_vars

Has(ev) == \E k \in 1..Len(olog) : olog[k] = ev
Count(ev) == Cardinality({k \in 1..Len(olog) : olog[k] = ev})

\* the events of the drill-down and of the chain
DrillChainEvents ==
    {"drill_detail", "drill_list", "grid_ready_ok", "timeout:grid_ready_1",
     "timeout:grid_ready_2", "drill_stuck", "drill_raised", "ensure_ok", "timeout:ensure",
     "tier1_yields", "tier1_nothing", "tier2_yields", "tier2_nothing", "tier2_raised",
     "tier3_yields", "tier3_nothing", "timeout:set_page", "timeout:grid_idle",
     "timeout:grid_rows", "tier4_yields", "tier4_nothing", "tier4_raised",
     "tier5_yields", "chain_exhausted"}

\* C15: once search_has_no_results has returned True, no call of the
\* drill-down or of the chain is made in the run; the table handed to
\* save_success_xlsx has the canonical columns, in order, and no row; and the
\* run returns normally unless writing that file or closing the browser
\* raises.
C15_ZeroResultsSavesEmptyTable ==
    Has("no_results") =>
       /\ \A k \in 1..Len(olog) : olog[k] \notin DrillChainEvents
       /\ opc \in {"save_empty", "except", "finally", "ended"}
       /\ opc # "save_empty" => saved = DataFrame(RELATED_COLUMNS, <<>>)
       /\ opc = "ended" =>
             \/ oend = "returned" /\ Has("save_ok")
             \/ oend = "raised" /\ (failed = "save_raised" \/ pending = "close_raised")

C15_Witness ==
    /\ opc = "ended" /\ Has("no_results") /\ oend = "returned"
    /\ saved.cols = RELATED_COLUMNS /\ saved.rows = <<>>

\* C17 (as claimed): when every entry URL fails, the run fails after one
\* pass, each entry URL attempted once.
C17_OnePassOverEntries ==
    failed = "goto_failed" => Count("goto_failed") = entries

\* C17: when every entry URL fails, the run fails after 3 passes of
\* open_entry, each entry URL attempted 3 times; a lookup of the search
\* input that returns None and a search trigger that cannot be clicked fail
\* the run at once: the lookup is not made again after it returned None, the
\* click is made once.
C17_FatalAfterRetryPasses ==
    /\ failed = "goto_failed" =>
          /\ Count("goto_failed") = 3 * entries
          /\ \A k \in 1..(3 * entries) : olog[k] = "goto_failed"
    /\ Has("find_input_none") =>
          /\ failed = "find_input_none"
          /\ Count("find_input_none") = 1
          /\ \A k \in 1..Len(olog) :
                olog[k] = "find_input_none" =>
                   \A j \in (k + 1)..Len(olog) :
                       olog[j] \notin {"find_input_found", "find_input_none", "find_input_raised"}
    /\ Has("click_search_false") =>
          /\ failed = "click_search_false"
          /\ Count("click_search_false") + Count("click_search_true") = 1

\* two entry URLs, each failed in each of the three passes
C17_Witness ==
    /\ opc = "ended" /\ oend = "raised"
    /\ failed = "goto_failed" /\ entries = 2 /\ Count("goto_failed") = 6

\* C18: a run in which a call of the try block raised ends by raising, and
\* before it ends the page snapshot, the error text and the network log have
\* each been attempted; a run returns normally only after the last call of
\* the try block returned.
C18_FailuresLeaveWithDiagnostics ==
    /\ opc \in {"except", "finally", "ended"} /\ ~Has("save_ok") => failed # ""
    /\ (failed # "" /\ opc \in {"finally", "ended"}) =>
          /\ Has("snapshot")
          /\ Has("error_text_written") \/ Has("error_text_raised")
    /\ (failed # "" /\ opc = "ended") =>
          /\ oend = "raised"
          /\ Has("xhr_log_written") \/ Has("xhr_log_failed")
          /\ \E k \in 1..Len(olog) :
                /\ olog[k] = failed
                /\ \E j \in (k + 1)..Len(olog) : olog[j] = "snapshot"
    /\ (opc = "ended" /\ oend = "returned") =>
          /\ failed = ""
          /\ Has("save_ok")
          /\ Has("no_results") \/ Has("no_reference") \/ Has("compare_matched")

\* every kind of failure the claim names, each ending in a raise
C18_Witness ==
    /\ opc = "ended" /\ oend = "raised"
    /\ failed = "compare_mismatch"
    /\ Has("snapshot") /\ Has("error_text_written") /\ Has("xhr_log_written")

TimeoutEvents == {"timeout:load_state", "timeout:grid_ready_1", "timeout:grid_ready_2",
                  "timeout:ensure", "timeout:set_page", "timeout:grid_idle",
                  "timeout:grid_rows"}

\* C19 (as claimed): every wait that times out ends the try block.
C19_EveryTimeoutAborts ==
    \A k \in 1..Len(olog) : olog[k] \in TimeoutEvents => failed = olog[k]

\* C19: a timeout of the wait for the load state or of the first wait of the
\* grid-ready step ends the try block and the run ends by raising; a timeout
\* of the second wait of the grid-ready step is followed by the rest of the
\* drill-down, a timeout of the activation by tier 1, a timeout of the grid
\* page change or of a wait of the walk by tier 4.
C19_TimeoutAbortsUnlessHandled ==
    \A k \in 1..Len(olog) :
       /\ olog[k] \in {"timeout:load_state", "timeout:grid_ready_1"} =>
             /\ failed = olog[k]
             /\ k < Len(olog) => olog[k + 1] = "snapshot"
             /\ opc = "ended" => oend = "raised"
       /\ olog[k] = "timeout:grid_ready_2" =>
             /\ failed # olog[k]
             /\ k < Len(olog) => olog[k + 1] \in {"drill_detail", "drill_stuck", "drill_raised"}
       /\ olog[k] = "timeout:ensure" =>
             /\ failed # olog[k]
             /\ k < Len(olog) => olog[k + 1] \in {"tier1_yields", "tier1_nothing"}
       /\ olog[k] \in {"timeout:set_page", "timeout:grid_idle", "timeout:grid_rows"} =>
             /\ failed # olog[k]
             /\ k < Len(olog) => olog[k + 1] \in {"tier4_yields", "tier4_nothing", "tier4_raised"}

\* a run returned normally after three of its waits had timed out
C19_Witness ==
    /\ opc = "ended" /\ oend = "returned"
    /\ Has("timeout:grid_ready_2") /\ Has("timeout:ensure") /\ Has("timeout:set_page")

\* C23 (as claimed): the grid state is read from the widget before and after
\* every page-change command, so at least once more than commands were made.
C23_StateReadAroundEveryCommand ==
    /\ wpc \in {"setpage", "read", "finish", "returned"} => state_reads >= commands + 1
    /\ commands >= 1 => state_reads >= 2

Parses(c) == c[1] = "str" /\ c[2] \in IntStrings \cup FloatStrings

\* C24 (as claimed): an identifier column whose every value parses as a
\* number comes out as integers; an identifier column with a value that does
\* not parse comes out cell for cell as it went in.
C24_IdColumnIntOrUntouched ==
    npc = "returned" =>
       \A name \in {"molecule_ID", "target_ID"} :
          (HasCol(nin.cols, name) /\ Len(Positions(nin.cols, name)) = 1) =>
             LET i == ColIndex(nin.cols, name)
                 o == ColIndex(nout.cols, name)
             IN IF \A r \in 1..Len(nin.rows) : Parses(nin.rows[r][i])
                THEN \A r \in 1..Len(nout.rows) : nout.rows[r][o][1] = "int"
                ELSE \A r \in 1..Len(nout.rows) : nout.rows[r][o] = nin.rows[r][i]

\* the first half alone: integers exactly when every value parses
C24_IntIffAllParse ==
    npc = "returned" =>
       \A name \in {"molecule_ID", "target_ID"} :
          (HasCol(nin.cols, name) /\ nin.rows # <<>>) =>
             LET i == ColIndex(nin.cols, name)
                 o == ColIndex(nout.cols, name)
             IN (\A r \in 1..Len(nin.rows) : Parses(nin.rows[r][i]))
                   <=> (\A r \in 1..Len(nout.rows) : nout.rows[r][o][1] = "int")

(***************************************************************************)
(* ensure_related_targets_section: the two sections in turn, the attempts  *)
(* to activate each, the forced override, the wait for the grid2 rows.     *)
(* Every page call is an input; its visibility checks may differ from one  *)
(* call to the next.                                                       *)
(***************************************************************************)
\* a fourth attempt
EnsureAttempts_Four == 3 + 1

\* "for attempt in range(3)", lines 567 and 590
EnsureAttempts == 3

Event(kind, selected, click, visible) ==
    [kind |-> kind, sec |-> esec, n |-> eattempt, selected |-> selected,
     click |-> click, visible |-> visible]

\* lines 572-573 and 593-594: "if not selected: click_tab_by_text(...)"
UsesClick(selected) == ~selected

EnsRaise(ev) ==
    /\ elog' = Append(elog, ev)
    /\ epc' = "raised"
    /\ UNCHANGED <<esec, eattempt>>

\* lines 567-579 and 590-599: one pass of the loop
EnsureAttempt ==
    /\ epc = "attempt"
    /\ \/ EnsRaise(Event("attempt", "raise", "none", ""))
       \/ \E selected \in BOOLEAN :
            LET sel == IF selected THEN "true" ELSE "false"
            IN IF UsesClick(selected)
               THEN \/ EnsRaise(Event("attempt", sel, "raise", ""))
                    \/ \E click \in {"clicked", "notab"}, visible \in BOOLEAN :
                         /\ elog' = Append(elog, Event("attempt", sel, click,
                                                       IF visible THEN "true" ELSE "false"))
                         /\ IF visible \/ eattempt + 1 >= EnsureAttempts
                            THEN epc' = "after" /\ eattempt' = eattempt
                            ELSE epc' = "attempt" /\ eattempt' = eattempt + 1
                         /\ esec' = esec
               ELSE \E visible \in BOOLEAN :
                         /\ elog' = Append(elog, Event("attempt", sel, "none",
                                                       IF visible THEN "true" ELSE "false"))
                         /\ IF visible \/ eattempt + 1 >= EnsureAttempts
                            THEN epc' = "after" /\ eattempt' = eattempt
                            ELSE epc' = "attempt" /\ eattempt' = eattempt + 1
                         /\ esec' = esec
    /\ UNCHANGED <<chainVars, drillVars, classVars, walkVars, hdrVars, normVars, retryVars, onceVars, scanVars, logVars>>

\* lines 581-585 and 601-604: the visibility is looked at again and the
\* override is applied if the section does not show
EnsureForce ==
    /\ epc = "after"
    /\ \/ /\ elog' = Append(elog, Event("check", "", "none", "true"))
          /\ IF esec = 1
             THEN esec' = 2 /\ eattempt' = 0 /\ epc' = "attempt"
             ELSE esec' = esec /\ eattempt' = eattempt /\ epc' = "grid2"
       \/ /\ elog' = elog \o <<Event("check", "", "none", "false"),
                                 Event("force", "", "none", "")>>
          /\ IF esec = 1
             THEN esec' = 2 /\ eattempt' = 0 /\ epc' = "attempt"
             ELSE esec' = esec /\ eattempt' = eattempt /\ epc' = "grid2"
       \/ /\ elog' = elog \o <<Event("check", "", "none", "false"),
                                 Event("force", "", "raise", "")>>
          /\ epc' = "raised"
          /\ UNCHANGED <<esec, eattempt>>
    /\ UNCHANGED <<chainVars, drillVars, classVars, walkVars, hdrVars, normVars, retryVars, onceVars, scanVars, logVars>>

\* lines 606-609: the wait for the grid2 rows, then the last look at the tab
EnsureGrid2 ==
    /\ epc = "grid2"
    /\ \/ EnsRaise(Event("grid2", "", "raise", ""))
       \/ EnsRaise(Event("grid2", "", "none", "false"))
       \/ /\ elog' = Append(elog, Event("grid2", "", "none", "true"))
          /\ epc' = "returned"
          /\ UNCHANGED <<esec, eattempt>>
    /\ UNCHANGED <<chainVars, drillVars, classVars, walkVars, hdrVars, normVars, retryVars, onceVars, scanVars, logVars>>

EnsInit ==
    /\ epc = "attempt" /\ esec = 1 /\ eattempt = 0 /\ elog = <<>>
    /\ ChainIdle /\ DrillIdle /\ ClassIdle /\ WalkIdle
    /\ HdrIdle /\ NormIdle /\ RetryIdle /\ OnceIdle /\ ScanIdle /\ LogIdle

EnsNext ==
    \/ EnsureAttempt
    \/ EnsureForce
    \/ EnsureGrid2

EnsSpec == EnsInit /\ [][EnsNext]_vars

Attempts(s) == {k \in 1..Len(elog) : elog[k].kind = "attempt" /\ elog[k].sec = s}

\* C25: for each section at most 3 attempts are made, numbered in order; an
\* attempt uses the text-matching click exactly when the selection call
\* returned false; an attempt after which the section shows is the last one,
\* and one after which it does not show is followed by the next attempt
\* unless it was the third; the visibility is then looked at once more and
\* the override is applied exactly when that look finds the section hidden.
C25_ActivationAttempts ==
    /\ \A k \in 1..(Len(elog) - 1) : elog[k].sec <= elog[k + 1].sec
    /\ \A s \in {1, 2} :
          /\ Cardinality(Attempts(s)) <= 3
          /\ \A k \in Attempts(s) :
                /\ (elog[k].click # "none") <=> (elog[k].selected = "false")
                /\ elog[k].visible = "true" => \A j \in Attempts(s) : j <= k
                /\ (elog[k].visible = "false" /\ elog[k].n < 2 /\ k < Len(elog)) =>
                      (k + 1 \in Attempts(s) /\ elog[k + 1].n = elog[k].n + 1)
    /\ \A k \in 1..Len(elog) :
          /\ elog[k].kind = "check" =>
                /\ k > 1 /\ elog[k - 1].kind = "attempt" /\ elog[k - 1].sec = elog[k].sec
                /\ elog[k - 1].visible = "true" \/ elog[k - 1].n = 2
                /\ (elog[k].visible = "false") <=>
                      (k < Len(elog) /\ elog[k + 1].kind = "force" /\ elog[k + 1].sec = elog[k].sec)
          /\ elog[k].kind = "force" => (k > 1 /\ elog[k - 1].kind = "check")

\* the first section hidden after three attempts and forced; the second
\* showing after its second attempt, selected through the widget, not forced
C25_Witness ==
    /\ epc = "returned"
    /\ Cardinality(Attempts(1)) = 3 /\ Cardinality(Attempts(2)) = 2
    /\ \E k \in 1..Len(elog) : elog[k].kind = "force" /\ elog[k].sec = 1
    /\ ~\E k \in 1..Len(elog) : elog[k].kind = "force" /\ elog[k].sec = 2
    /\ \E k \in Attempts(2) : elog[k].selected = "true" /\ elog[k].visible = "true"

\* ---------------------------------------------------------------------
\* extract_grid2_data_from_html (795-844), from array_start on: the page
\* source is a sequence of characters that starts at the "[" found after
\* "data:"; the scan counts every "[" and every "]" it meets.
\* ---------------------------------------------------------------------
MaxRecords == 2

Quote == "\""

\* a JSON string with the given characters between its quotes
Str(cs) == <<Quote>> \o cs \o <<Quote>>

\* the values a record's field holds: strings, some with brackets in them,
\* and nested arrays
FieldValues ==
    { Str(<<"a">>), Str(<<"a", "]">>), Str(<<"[", "a">>), Str(<<"[", "a", "]">>),
      <<"[", "1", "]">>, <<"[", "[", "1", "]", "]">> }

\* one object with one field, as the page's script writes it
Obj(v) == <<"{", Quote, "k", Quote, ":">> \o v \o <<"}">>

RECURSIVE Items(_, _)
Items(kind, vals) ==
    IF vals = <<>> THEN <<>>
    ELSE LET item == IF kind = "objects" THEN Obj(Head(vals)) ELSE Head(vals)
         IN  IF Len(vals) = 1 THEN item
             ELSE item \o <<",">> \o Items(kind, Tail(vals))

\* the inline array of a page source
ArrayText(doc) == <<"[">> \o Items(doc.kind, doc.vals) \o <<"]">>

\* what follows the array in the page source
Tails == { <<>>, <<")", ";">>, <<"]">> }

Docs ==
    { [kind |-> k, vals |-> vs, tail |-> t] :
        k \in {"objects", "scalars"},
        vs \in UNION { [1..n -> FieldValues] : n \in 0..MaxRecords },
        t \in Tails } \
    { d \in [kind : {"objects"}, vals : {<<>>}, tail : Tails] : TRUE }

Segment(doc) == ArrayText(doc) \o doc.tail

\* lines 819-829: the index of the "]" that brings depth back to 0, or 0
\* when the loop ends without one (end_idx == -1)
RECURSIVE ScanEnd(_, _, _)
ScanEnd(seg, i, dep) ==
    IF i > Len(seg) THEN 0
    ELSE LET ch == seg[i]
             d  == IF ch = "[" THEN dep + 1
                   ELSE IF ch = "]" THEN dep - 1
                   ELSE dep
         IN  IF ch = "]" /\ d = 0 THEN i ELSE ScanEnd(seg, i + 1, d)

\* json.loads on the texts the scan can select: a text is JSON exactly when
\* it is the whole of an array (a cut inside a string or extra characters
\* after the closing bracket make it raise); the result is the list of values
Loads(text) ==
    IF \E d \in Docs : ArrayText(d) = text
    THEN LET d == CHOOSE d \in Docs : ArrayText(d) = text
         IN  [ok |-> TRUE, kind |-> d.kind, vals |-> d.vals]
    ELSE [ok |-> FALSE, kind |-> "off", vals |-> <<>>]

ScanFrame == UNCHANGED <<chainVars, drillVars, classVars, walkVars, hdrVars, normVars, retryVars, onceVars, ensVars, logVars>>

\* lines 819-833: the scan and the slice
ScanBrackets ==
    /\ bpc = "array_start"
    /\ LET end_idx == ScanEnd(Segment(bdoc), 1, 0)
       IN  IF end_idx = 0
           THEN bpc' = "returned" /\ bsel' = <<>>
           ELSE bpc' = "json_text" /\ bsel' = SubSeq(Segment(bdoc), 1, end_idx)
    /\ UNCHANGED <<bdoc, bout>>
    /\ ScanFrame

\* lines 834-844: json.loads under try, the list and dict tests, the table
LoadJson ==
    /\ bpc = "json_text"
    /\ LET data == Loads(bsel)
       IN  bout' = IF data.ok /\ data.vals # <<>> /\ data.kind = "objects"
                   THEN data.vals
                   ELSE <<>>
    /\ bpc' = "returned"
    /\ UNCHANGED <<bdoc, bsel>>
    /\ ScanFrame

ScanInit ==
    /\ ChainIdle /\ DrillIdle /\ ClassIdle /\ WalkIdle
    /\ HdrIdle /\ NormIdle /\ RetryIdle /\ OnceIdle /\ EnsIdle /\ LogIdle
    /\ bpc = "array_start"
    /\ bdoc \in Docs
    /\ bsel = <<>>
    /\ bout = <<>>

ScanNext == ScanBrackets \/ LoadJson

ScanSpec == ScanInit /\ [][ScanNext]_vars

\* whether a value is a string whose brackets do not pair up
Unpaired(v) == v \in { Str(<<"a", "]">>), Str(<<"[", "a">>) }

\* C26: when the page source seeds the array inline with a non-empty array
\* of objects, whatever the nesting and whatever the strings hold, the scan
\* selects exactly that array and its records are returned; in every other
\* case nothing is returned.
C26_ScanSelectsInlineArray ==
    bpc = "returned" =>
        IF bdoc.kind = "objects"
        THEN bsel = ArrayText(bdoc) /\ bout = bdoc.vals
        ELSE bout = <<>>

\* the same with the strings restricted to those whose brackets pair up
C26_HoldsOnPairedStrings ==
    (bpc = "returned" /\ \A k \in 1..Len(bdoc.vals) : ~Unpaired(bdoc.vals[k])) =>
        IF bdoc.kind = "objects"
        THEN bsel = ArrayText(bdoc) /\ bout = bdoc.vals
        ELSE bout = <<>>

\* ---------------------------------------------------------------------
\* response_log: the listener on_response of run_once (1064-1095), run by
\* the browser context while the main flow is inside a page call, and the
\* one reader in the chain, extract_from_xhr (745-765, called at 975).
\* ---------------------------------------------------------------------
MaxResponses == 2

Ceiling == 2000000

ResourceTypes == {"xhr", "fetch", "document", ""}

\* content-length as line 1084 parses it: 0 when absent or unparsable
Lengths == {0, Ceiling, Ceiling + 1}

\* line 1088 after the mutation
Elides_FromCeiling(length) == length # 0 /\ length >= Ceiling

\* line 1088: if length and length > 2_000_000
Elides(length) == length # 0 /\ length > Ceiling

\* lines 1089-1090: append the entry without a body and return
AfterElided(entry) == <<entry>>

\* the positions of the main flow in which it makes page calls, during
\* which the context delivers responses to the listener
PageCalls == {"search", "drill", "tier1", "tier2", "tier3", "tier4", "post"}

LogFrame == UNCHANGED <<chainVars, drillVars, classVars, walkVars, hdrVars, normVars, retryVars, onceVars, ensVars, scanVars>>

\* lines 1066-1095: one delivery of a response to on_response
OnResponse ==
    /\ lpc \in PageCalls
    /\ Len(lresp) < MaxResponses
    /\ \E rtype \in ResourceTypes, length \in Lengths, text_raises \in BOOLEAN :
          LET url   == Len(lresp) + 1
              entry == [url |-> url, resource_type |-> rtype, body |-> "absent"]
          IN  /\ lresp' = Append(lresp, [resource_type |-> rtype, length |-> length])
              /\ rlog' =
                    IF rtype \notin {"xhr", "fetch"} THEN rlog
                    ELSE IF Elides(length) THEN rlog \o AfterElided(entry)
                    ELSE Append(rlog, [entry EXCEPT !.body =
                                          IF text_raises THEN "None" ELSE "text"])
    /\ UNCHANGED <<lpc, lseen, lreads>>
    /\ LogFrame

\* the main flow up to the last tier of the chain: lines 1119-1141 and
\* 947-973; an exception, or a tier that finds the table, leaves for the
\* rest of run_once
MainStep ==
    /\ lpc \in {"search", "drill", "tier1", "tier2", "tier3", "tier4"}
    /\ \/ lpc' = CASE lpc = "search" -> "drill"
                   [] lpc = "drill"  -> "tier1"
                   [] lpc = "tier1"  -> "tier2"
                   [] lpc = "tier2"  -> "tier3"
                   [] lpc = "tier3"  -> "tier4"
                   [] lpc = "tier4"  -> "tier5"
       \/ lpc' = "post"
    /\ UNCHANGED <<rlog, lresp, lseen, lreads>>
    /\ LogFrame

\* lines 975-979 and 745-765: extract_from_xhr iterates over the log; it
\* makes no page call
Tier5Read ==
    /\ lpc = "tier5"
    /\ lseen' = rlog
    /\ lreads' = lreads + 1
    /\ lpc' = "post"
    /\ UNCHANGED <<rlog, lresp>>
    /\ LogFrame

\* lines 1144-1188: save and compare, or dump_debug of the except clause,
\* then the log is written to xhr_log.json and the context is closed
MainClose ==
    /\ lpc = "post"
    /\ lpc' = "closed"
    /\ UNCHANGED <<rlog, lresp, lseen, lreads>>
    /\ LogFrame

LogInit ==
    /\ ChainIdle /\ DrillIdle /\ ClassIdle /\ WalkIdle
    /\ HdrIdle /\ NormIdle /\ RetryIdle /\ OnceIdle /\ EnsIdle /\ ScanIdle
    /\ lpc = "search"
    /\ rlog = <<>>
    /\ lresp = <<>>
    /\ lseen = <<>>
    /\ lreads = 0

LogNext == OnResponse \/ MainStep \/ Tier5Read \/ MainClose

LogSpec == LogInit /\ [][LogNext]_vars

IsPrefixOf(a, b) == Len(a) <= Len(b) /\ SubSeq(b, 1, Len(a)) = a

\* the entries of the log that belong to response r
EntriesOf(r) == { k \in 1..Len(rlog) : rlog[k].url = r }

\* C27: the log only grows at its end, by one entry for a delivered xhr or
\* fetch response and by none for any other; every entry keeps the place and
\* the content it was appended with; an entry has no body exactly when the
\* declared length of its response is above 2,000,000; the chain reads the
\* log only in its last tier, and what it has read stays a prefix of the log.
C27_LogAppendOnly ==
    [][ /\ IsPrefixOf(rlog, rlog')
        /\ Len(rlog') <= Len(rlog) + 1
        /\ \A r \in 1..Len(lresp') :
              /\ Cardinality({ k \in 1..Len(rlog') : rlog'[k].url = r }) =
                    IF lresp'[r].resource_type \in {"xhr", "fetch"} THEN 1 ELSE 0
              /\ \A k \in 1..Len(rlog') : rlog'[k].url = r =>
                    /\ rlog'[k].resource_type = lresp'[r].resource_type
                    /\ (rlog'[k].body = "absent") <=> (lresp'[r].length > 2000000)
        /\ lreads' # lreads => (lpc = "tier5" /\ lseen' = rlog)
        /\ lseen' # lseen => lreads' # lreads
        /\ IsPrefixOf(lseen', rlog')
      ]_vars

\* the chain has read a log that held an entry without a body, and the
\* listener has appended another entry after the read
C27_Witness ==
    /\ lreads = 1
    /\ Len(lseen) = 1 /\ lseen[1].body = "absent"
    /\ Len(rlog) = 2 /\ rlog[2].body = "text"

\* ---------------------------------------------------------------------
\* The navigations of drill_down_to_detail, under Spec.
\* ---------------------------------------------------------------------
\* the link a strategy follows from page p: the third cell's for the click
\* and the direct navigation, the Latin-name column's for the raw HTML
LinkAt(place, p) ==
    IF place = "html" THEN extract_latin_href_from_html(p) ELSE get_latin_link(p)

\* C28: a round makes at most three navigations, one per strategy; each
\* goes to the link read from the page the drill-down is on at that moment,
\* wherever an earlier strategy of the round left it; a whole drill-down
\* makes at most 12.
C28_NavigationsBounded ==
    [][ /\ navs' <= 3
        /\ nav_total' <= 12
        /\ navs' # navs => (navs' = 0 \/ navs' = navs + 1)
        /\ nav_total' # nav_total =>
              /\ dpc \in {"click", "goto", "html"}
              /\ nav_total' = nav_total + 1
              /\ page'.url = LinkAt(dpc, page)
      ]_vars

\* twelve navigations in four rounds, the last round's three going through
\* three pages: more than one level in one round
C28_Witness ==
    /\ nav_total = 12 /\ navs = 3 /\ rounds = 4
    /\ dpc = "returned"

\* a list view none of whose headers contains "latin name"
ListWithoutLatin(p) ==
    /\ is_search_list_page(p)
    /\ ~\E i \in 1..Len(p.headers) : HasLatin(p.headers[i])

C30_NormalizeIdempotent ==
    npc = "again" => nagain = nout

\* the same, for the tables whose column names are pairwise distinct
C30_HoldsOnDistinctNames ==
    (npc = "again" /\ \A i, j \in 1..Len(nin.cols) : i # j => nin.cols[i] # nin.cols[j]) =>
        nagain = nout

\* ---------------------------------------------------------------------
\* The ways run_once ends, under OnceSpec.
\* ---------------------------------------------------------------------
\* the place of the first event ev of the run, 0 if there is none
FirstOf(ev) ==
    IF Has(ev) THEN CHOOSE k \in 1..Len(olog) : olog[k] = ev /\ \A j \in 1..(k - 1) : olog[j] # ev
    ELSE 0

\* C31 (as claimed): however the run ends (export, empty export, any
\* failure), the context and the browser have each been closed exactly once
\* when run_once returns or raises; and when the run failed on the
\* comparison with the reference, the output file was written before the
\* comparison and is still there.
C31_ClosedOnceOnEveryExit ==
    /\ Count("context_closed") <= 1 /\ Count("browser_closed") <= 1
    /\ opc = "ended" => (Count("context_closed") = 1 /\ Count("browser_closed") = 1)
    /\ failed = "compare_mismatch" =>
          /\ Has("save_ok") /\ FirstOf("save_ok") < FirstOf("compare_mismatch")
          /\ saved # NoneDF

\* the second half alone, and the closing as far as it holds: each close is
\* called at most once, context.close() is called on every exit, and
\* browser.close() is called exactly when context.close() has returned
C31_SavedBeforeMismatch ==
    /\ Count("context_closed") + Count("context_close_raised") <= 1
    /\ Count("browser_closed") + Count("browser_close_raised") <= 1
    /\ opc = "ended" =>
          /\ Count("context_closed") + Count("context_close_raised") = 1
          /\ Has("context_closed") <=> (Has("browser_closed") \/ Has("browser_close_raised"))
    /\ failed = "compare_mismatch" =>
          /\ Has("save_ok") /\ FirstOf("save_ok") < FirstOf("compare_mismatch")
          /\ saved # NoneDF

====
